---- MODULE Spec2Model ----
(***************************************************************************)
(* State-machine model of the emailAutomation backend: the email routes    *)
(* (rate limiters, requireUser, requireConnectedGoogle, email controller,  *)
(* gmail service), the stand-alone authorization gates, the body/header    *)
(* normalizers and the Google OAuth verify callback.                       *)
(*                                                                         *)
(* JavaScript values are modelled as tagged records so that undefined,     *)
(* null, the empty string and a non-empty string stay distinct; strings    *)
(* are TLA+ strings and are taken apart with Len/SubSeq.                   *)
(***************************************************************************)
EXTENDS Integers, Sequences, FiniteSets, TLC

VARIABLES
    nodeEnv,      \* process.env.NODE_ENV
    now,          \* the clock, in milliseconds
    store,        \* rate limiter stores: policy -> caller key -> window record
    req,          \* the request being handled (user, query, params, ip)
    pc,           \* position of the request in the middleware chain
    ran,          \* the handlers that have run for the request, in order
    responses,    \* the responses sent for the request, in order
    svc,          \* gmail service call state (list, in-flight gets, results)
    remoteCalls,  \* the remote mailbox calls issued for the request, in order
    remote,       \* what the remote mailbox API answers to list and to get
    gate,         \* the stand-alone gate a request is put through
    payload,      \* a message payload tree handed to extractBody
    extracted,    \* the result of extractBody on payload
    inflight,     \* concurrent requests inside one rate limiter
    db,           \* the users collection
    logins        \* the verify callbacks in progress

vars == <<nodeEnv, now, store, req, pc, ran, responses, svc, remoteCalls,
          remote, gate, payload, extracted, inflight, db, logins>>

routeVars == <<req, pc, ran, responses, svc, remoteCalls, remote, gate>>
rateVars  == <<store, now, inflight>>
bodyVars  == <<payload, extracted>>
loginVars == <<db, logins>>

(***************************************************************************)
(* JavaScript values                                                       *)
(***************************************************************************)
Undefined == [t |-> "undefined"]
Null      == [t |-> "null"]
Str(s)    == [t |-> "string", v |-> s]
Num(n)    == [t |-> "number", v |-> n]
Bool(b)   == [t |-> "boolean", v |-> b]
NaN       == [t |-> "NaN"]

\* ToBoolean: undefined, null, '', 0, NaN and false are falsy.
Truthy(x) ==
    CASE x.t = "undefined" -> FALSE
      [] x.t = "null"      -> FALSE
      [] x.t = "NaN"       -> FALSE
      [] x.t = "string"    -> x.v # ""
      [] x.t = "number"    -> x.v # 0
      [] x.t = "boolean"   -> x.v
      [] OTHER             -> TRUE

(***************************************************************************)
(* Strings                                                                 *)
(***************************************************************************)
CharAt(s, i) == SubSeq(s, i, i)

\* String.prototype.includes
Includes(s, needle) ==
    \E i \in 1..(Len(s) - Len(needle) + 1) :
        SubSeq(s, i, i + Len(needle) - 1) = needle

\* 1-based index of the one-character string c in s, 0 when absent
IndexOf(s, c) ==
    IF \E i \in 1..Len(s) : CharAt(s, i) = c
    THEN CHOOSE i \in 1..Len(s) :
             CharAt(s, i) = c /\ \A j \in 1..(i - 1) : CharAt(s, j) # c
    ELSE 0

Digits == "0123456789"
IsDigit(c) == IndexOf(Digits, c) > 0
IsSpace(c) == c = " "

RECURSIVE SkipSpaces(_, _)
SkipSpaces(s, i) ==
    IF i <= Len(s) /\ IsSpace(CharAt(s, i)) THEN SkipSpaces(s, i + 1) ELSE i

RECURSIVE DigitRun(_, _, _)
\* value of the longest digit prefix of s starting at i, given acc so far
DigitRun(s, i, acc) ==
    IF i <= Len(s) /\ IsDigit(CharAt(s, i))
    THEN DigitRun(s, i + 1, acc * 10 + (IndexOf(Digits, CharAt(s, i)) - 1))
    ELSE acc

\* parseInt(s, 10): leading blanks, an optional sign, then the longest run
\* of digits; NaN when no digit follows.
parseIntDigits(s, j, neg) ==
    IF j <= Len(s) /\ IsDigit(CharAt(s, j))
    THEN Num(IF neg THEN 0 - DigitRun(s, j, 0) ELSE DigitRun(s, j, 0))
    ELSE NaN

parseIntFrom(s, i) ==
    IF i <= Len(s) /\ CharAt(s, i) = "-" THEN parseIntDigits(s, i + 1, TRUE)
    ELSE IF i <= Len(s) /\ CharAt(s, i) = "+" THEN parseIntDigits(s, i + 1, FALSE)
    ELSE parseIntDigits(s, i, FALSE)

parseInt(s) == parseIntFrom(s, SkipSpaces(s, 1))

\* String.prototype.trim (blanks only)
RECURSIVE TrimEnd(_)
TrimEnd(s) ==
    IF Len(s) > 0 /\ IsSpace(CharAt(s, Len(s)))
    THEN TrimEnd(SubSeq(s, 1, Len(s) - 1)) ELSE s

Trim(s) == TrimEnd(SubSeq(s, SkipSpaces(s, 1), Len(s)))

Upper == "ABCDEFGHIJKLMNOPQRSTUVWXYZ"
Lower == "abcdefghijklmnopqrstuvwxyz"

lowerCharAt(c, k) == IF k > 0 THEN CharAt(Lower, k) ELSE c
lowerChar(c) == lowerCharAt(c, IndexOf(Upper, c))

RECURSIVE toLowerCase(_)
toLowerCase(s) ==
    IF s = "" THEN ""
    ELSE lowerChar(CharAt(s, 1)) \o toLowerCase(SubSeq(s, 2, Len(s)))

RECURSIVE Split(_, _)
RECURSIVE SplitAt(_, _, _)
\* String.prototype.split on a one-character separator; k is the index of
\* the first separator in s, 0 when there is none
SplitAt(s, sep, k) ==
    IF k = 0 THEN <<s>>
    ELSE <<SubSeq(s, 1, k - 1)>> \o Split(SubSeq(s, k + 1, Len(s)), sep)
Split(s, sep) == SplitAt(s, sep, IndexOf(s, sep))

(***************************************************************************)
(* Buffer.from(data, 'base64').toString('utf-8') on printable ASCII        *)
(***************************************************************************)
B64 == "ABCDEFGHIJKLMNOPQRSTUVWXYZabcdefghijklmnopqrstuvwxyz0123456789+/"
\* the printable ASCII characters, code 32 first (code 96 is shown as ?)
Ascii == " !\"#$%&'()*+,-./0123456789:;<=>?@ABCDEFGHIJKLMNOPQRSTUVWXYZ[\\]^_?abcdefghijklmnopqrstuvwxyz{|}~"

ByteChar(b) == IF b >= 32 /\ b <= 126 THEN CharAt(Ascii, b - 31) ELSE "?"

\* the value of the base64 character at index k of B64 (none for k = 0)
Sextet(k) == IF k > 0 THEN <<k - 1>> ELSE <<>>

RECURSIVE Sextets(_)
\* the 6-bit values of the base64 characters up to the padding
Sextets(s) ==
    IF s = "" \/ CharAt(s, 1) = "=" THEN <<>>
    ELSE Sextet(IndexOf(B64, CharAt(s, 1))) \o Sextets(SubSeq(s, 2, Len(s)))

RECURSIVE BytesOf(_)
\* every full group of 8 bits of the sextet stream
BytesOf(q) ==
    IF Len(q) >= 4
    THEN LET w == ((q[1] * 64 + q[2]) * 64 + q[3]) * 64 + q[4]
         IN  <<w \div 65536, (w \div 256) % 256, w % 256>>
                 \o BytesOf(SubSeq(q, 5, Len(q)))
    ELSE IF Len(q) = 3
    THEN LET w == (q[1] * 64 + q[2]) * 64 + q[3]
         IN  <<w \div 1024, (w \div 4) % 256>>
    ELSE IF Len(q) = 2
    THEN <<(q[1] * 64 + q[2]) \div 16>>
    ELSE <<>>

RECURSIVE CharsOf(_)
CharsOf(bytes) ==
    IF bytes = <<>> THEN ""
    ELSE ByteChar(bytes[1]) \o CharsOf(Tail(bytes))

base64Decode(data) == CharsOf(BytesOf(Sextets(data)))

(***************************************************************************)
(* Message payload trees (gmail.service.ts, extractBody)                   *)
(*                                                                         *)
(* A node is [t, mimeType, data, parts]: data is payload.body?.data (a        *)
(* string or undefined), parts is undefined or an array of nodes.          *)
(***************************************************************************)
Arr(seq) == [t |-> "array", v |-> seq]

Leaf(mime, data) ==
    [t |-> "object", mimeType |-> mime, data |-> data, parts |-> Undefined]
Multipart(kids) ==
    [t |-> "object", mimeType |-> "multipart/alternative", data |-> Undefined,
     parts |-> Arr(kids)]

RECURSIVE extractBody(_)
RECURSIVE extractBodyLoop(_, _, _)
RECURSIVE extractBodyNested(_, _, _)

\* the for loop of extractBody over payload.parts from index i on, with
\* the local variable body as it stands on entry
extractBodyLoop(parts, i, body) ==
    IF i > Len(parts) THEN body
    ELSE LET part == parts[i] IN
         IF part.mimeType = "text/plain" /\ Truthy(part.data)
         THEN base64Decode(part.data.v)
         ELSE IF part.mimeType = "text/html" /\ Truthy(part.data) /\ body = ""
         THEN extractBodyLoop(parts, i + 1, base64Decode(part.data.v))
         ELSE IF Truthy(part.parts)
         THEN extractBodyNested(parts, i, extractBody(part))
         ELSE extractBodyLoop(parts, i + 1, body)

\* body = extractBody(part); if (body) break;
extractBodyNested(parts, i, inner) ==
    IF inner # "" THEN inner ELSE extractBodyLoop(parts, i + 1, inner)

extractBody(node) ==
    IF Truthy(node.data) THEN base64Decode(node.data.v)
    ELSE IF Truthy(node.parts) THEN extractBodyLoop(node.parts.v, 1, "")
    ELSE ""

(***************************************************************************)
(* Middleware decisions: a handler either calls next() or answers.         *)
(***************************************************************************)
Continue == [next |-> TRUE]
Deny(status, body) == [next |-> FALSE, status |-> status, body |-> body]

AuthenticationRequired == [success |-> FALSE, message |-> "Authentication required"]

\* every role of the user required to be among the roles
hasOnlyRequiredRoles(user, roles) ==
    \A i \in 1..Len(user.roles) : \E j \in 1..Len(roles) : user.roles[i] = roles[j]

\* user.roles.some((userRole) => roles.includes(userRole))
hasRequiredRole(user, roles) ==
    \E i \in 1..Len(user.roles) : \E j \in 1..Len(roles) : user.roles[i] = roles[j]

\* requireUser without its check
requireUserUnchecked(r) == Continue

\* requireUser testing the session flag only
requireUserFlagOnly(r) ==
    IF ~r.authenticated THEN Deny(401, AuthenticationRequired) ELSE Continue

requireUser(r) ==
    IF ~r.authenticated \/ ~Truthy(r.user)
    THEN Deny(401, AuthenticationRequired)
    ELSE Continue

\* requireConnectedGoogle testing the token against undefined only
requireConnectedGoogleDefined(r) ==
    IF ~Truthy(r.user)
    THEN Deny(401, AuthenticationRequired)
    ELSE IF r.user.googleAccessToken = Undefined
    THEN Deny(403, [success |-> FALSE,
                    message |-> "Google account connection required. Please connect your Google account to access Gmail features.",
                    code |-> "GOOGLE_NOT_CONNECTED"])
    ELSE Continue

requireConnectedGoogle(r) ==
    IF ~Truthy(r.user)
    THEN Deny(401, AuthenticationRequired)
    ELSE IF ~Truthy(r.user.googleAccessToken)
    THEN Deny(403, [success |-> FALSE,
                    message |-> "Google account connection required. Please connect your Google account to access Gmail features.",
                    code |-> "GOOGLE_NOT_CONNECTED"])
    ELSE Continue

requireRole(roles, r) ==
    IF ~Truthy(r.user)
    THEN Deny(401, AuthenticationRequired)
    ELSE IF ~hasRequiredRole(r.user, roles)
    THEN Deny(403, [success |-> FALSE, message |-> "Insufficient permissions"])
    ELSE Continue

\* user._id.toString() === resourceUserId
isOwner(user, resourceUserId) == Str(user.id) = resourceUserId

\* ownership as a requirement on top of the role
ownershipAndRole(user, resourceUserId, roles) ==
    isOwner(user, resourceUserId) /\ hasRequiredRole(user, roles)

\* isOwner || hasRequiredRole
ownershipOrRole(user, resourceUserId, roles) ==
    isOwner(user, resourceUserId) \/ hasRequiredRole(user, roles)

\* requireOwnershipOrRole looking at the route parameter first
requireOwnershipOrRoleParamFirst(paramName, roles, r) ==
    IF ~Truthy(r.params[paramName])
    THEN Deny(400, [success |-> FALSE, message |-> "Invalid request"])
    ELSE IF ~Truthy(r.user)
    THEN Deny(401, AuthenticationRequired)
    ELSE IF ownershipOrRole(r.user, r.params[paramName], roles)
    THEN Continue
    ELSE Deny(403, [success |-> FALSE, message |-> "Access denied"])

requireOwnershipOrRole(paramName, roles, r) ==
    IF ~Truthy(r.user)
    THEN Deny(401, AuthenticationRequired)
    ELSE IF ~Truthy(r.params[paramName])
    THEN Deny(400, [success |-> FALSE, message |-> "Invalid request"])
    ELSE IF ownershipOrRole(r.user, r.params[paramName], roles)
    THEN Continue
    ELSE Deny(403, [success |-> FALSE, message |-> "Access denied"])

(***************************************************************************)
(* Rate limiters (middleware/rateLimiter.ts).  Each limiter is a           *)
(* rateLimit({windowMs, max, handler, skip}) instance with its own store:  *)
(* per caller key a hit count and the time the window ends.                *)
(***************************************************************************)
WindowMs == 15 * 60 * 1000

\* a skip that does not look at the environment
shouldSkipRateLimitAlways(env) == TRUE

\* the api limiter skipping in every environment
apiRateLimiterSkipAlways(env) == TRUE

shouldSkipRateLimit(env) == env = "test" \/ env = "development"
apiRateLimiterSkip(env) == env = "test"

strictRateLimiter   == [name |-> "strict",   windowMs |-> WindowMs, max |-> 5]
standardRateLimiter == [name |-> "standard", windowMs |-> WindowMs, max |-> 100]
lenientRateLimiter  == [name |-> "lenient",  windowMs |-> WindowMs, max |-> 1000]
globalRateLimiter   == [name |-> "global",   windowMs |-> WindowMs, max |-> 500]
apiRateLimiter      == [name |-> "api",      windowMs |-> WindowMs, max |-> 200]

Policies == {strictRateLimiter, standardRateLimiter, lenientRateLimiter,
             globalRateLimiter, apiRateLimiter}
PolicyNames == {p.name : p \in Policies}

\* every limiter with the skip of shouldSkipRateLimit
skipShared(policy, env) == shouldSkipRateLimit(env)

\* the skip option of a limiter
skip(policy, env) ==
    IF policy.name = "api" THEN apiRateLimiterSkip(env) ELSE shouldSkipRateLimit(env)

NoWindow == [hits |-> 0, resetTime |-> 0]

\* the store's increment for one caller key: a new window when none is
\* recorded or the recorded one has elapsed, else one more hit
increment(rec, policy, t) ==
    IF rec.hits = 0 \/ rec.resetTime <= t
    THEN [hits |-> 1, resetTime |-> t + policy.windowMs]
    ELSE [hits |-> rec.hits + 1, resetTime |-> rec.resetTime]

\* Retry-After: the seconds left in the window, rounded up
retryAfter(rec, t) == ((rec.resetTime - t) + 999) \div 1000

rateLimitHandler(rec, t) ==
    Deny(429, [success |-> FALSE,
               message |-> "Too many requests. Please try again later.",
               retryAfter |-> retryAfter(rec, t)])

\* the decision of a limiter for a request whose increment returned rec
rateLimitDecision(policy, rec, t) ==
    IF rec.hits > policy.max THEN rateLimitHandler(rec, t) ELSE Continue

(***************************************************************************)
(* Header parsing and message normalization (gmail.service.ts)             *)
(***************************************************************************)
Threw(message) == [threw |-> TRUE, message |-> message]
Returned(v) == [threw |-> FALSE, v |-> v]

TypeErrorToLowerCase == "Cannot read properties of undefined (reading 'toLowerCase')"
TypeErrorBody == "Cannot read properties of undefined (reading 'body')"

RECURSIVE findHeader(_, _, _)
\* headers.find((h) => h.name.toLowerCase() === name.toLowerCase()), from i on
findHeader(headers, name, i) ==
    IF i > Len(headers) THEN Returned(Undefined)
    ELSE IF headers[i].name.t # "string" THEN Threw(TypeErrorToLowerCase)
    ELSE IF toLowerCase(headers[i].name.v) = toLowerCase(name)
    THEN Returned(headers[i])
    ELSE findHeader(headers, name, i + 1)

\* header?.value || '' for the outcome f of the find
headerValue(f) ==
    IF f.threw THEN f
    ELSE IF f.v = Undefined THEN Returned("")
    ELSE IF Truthy(f.v.value) THEN Returned(f.v.value.v)
    ELSE Returned("")

getHeader(headers, name) == headerValue(findHeader(headers, name, 1))

\* Date values: the time as whole days since 1970-01-01 plus the
\* milliseconds into that day (so that it fits machine integers), or an
\* Invalid Date
MsPerDay == 24 * 60 * 60 * 1000
DateOf(days, ms) == [t |-> "date", valid |-> TRUE, days |-> days, ms |-> ms]
InvalidDate == [t |-> "date", valid |-> FALSE]

\* days from 1970-01-01 to the calendar day y-m-d (yy is the year counted
\* from March)
DaysOfYear(yy, m, d) ==
    yy * 365 + yy \div 4 - yy \div 100 + yy \div 400
        + (153 * ((m + 9) % 12) + 2) \div 5 + d - 1 - 719468
DaysFromCivil(y, m, d) == DaysOfYear(IF m <= 2 THEN y - 1 ELSE y, m, d)

\* the day the clock variable now counts its milliseconds from
ClockEpochDays == DaysFromCivil(2024, 1, 15)
\* new Date() at clock time t
currentDate(t) == DateOf(ClockEpochDays + t \div MsPerDay, t % MsPerDay)

IsLeapYear(y) == (y % 4 = 0 /\ y % 100 # 0) \/ y % 400 = 0

DaysInMonth(y, m) ==
    IF m = 2 THEN (IF IsLeapYear(y) THEN 29 ELSE 28)
    ELSE IF m \in {4, 6, 9, 11} THEN 30 ELSE 31

AllDigits(s) == \A i \in 1..Len(s) : IsDigit(CharAt(s, i))

\* UTC midnight of the calendar day y-m-d, or an Invalid Date
civilDate(y, m, d) ==
    IF m >= 1 /\ m <= 12 /\ d >= 1 /\ d <= DaysInMonth(y, m)
    THEN DateOf(DaysFromCivil(y, m, d), 0)
    ELSE InvalidDate

\* new Date(str) for date-only ISO strings YYYY-MM-DD (UTC midnight); any
\* other string used in this model is one the parser rejects
newDate(str) ==
    IF /\ Len(str) = 10
       /\ CharAt(str, 5) = "-" /\ CharAt(str, 8) = "-"
       /\ AllDigits(SubSeq(str, 1, 4)) /\ AllDigits(SubSeq(str, 6, 7))
       /\ AllDigits(SubSeq(str, 9, 10))
    THEN civilDate(DigitRun(str, 1, 0), DigitRun(str, 6, 0), DigitRun(str, 9, 0))
    ELSE InvalidDate

\* getHeader('To').split(',').map((email) => email.trim())
trimAll(parts) == [i \in 1..Len(parts) |-> Trim(parts[i])]
splitTo(toHeader) == trimAll(Split(toHeader, ","))

\* the record parseHeaders returns, from the outcomes of its four getHeader
\* calls (evaluated in the order subject, from, to, date)
parsedHeaders(subject, from, to, dateStr, t) ==
    IF subject.threw THEN subject
    ELSE IF from.threw THEN from
    ELSE IF to.threw THEN to
    ELSE IF dateStr.threw THEN dateStr
    ELSE Returned([subject |-> subject.v,
                   from    |-> from.v,
                   to      |-> splitTo(to.v),
                   date    |-> IF dateStr.v # "" THEN newDate(dateStr.v)
                               ELSE currentDate(t)])

parseHeaders(headers, t) ==
    parsedHeaders(getHeader(headers, "Subject"), getHeader(headers, "From"),
                  getHeader(headers, "To"), getHeader(headers, "Date"), t)

\* msg.labelIds?.includes('UNREAD')
includesUnread(labelIds) ==
    Truthy(labelIds) /\ \E i \in 1..Len(labelIds.v) : labelIds.v[i] = "UNREAD"

\* the body of the per-message callback after the get returned msg:
\* headers, parseHeaders, extractBody, isRead and the EmailMessage record
\* msg.payload?.headers || []
headersOf(msg) ==
    IF Truthy(msg.payload) /\ Truthy(msg.payload.headers)
    THEN msg.payload.headers.v ELSE <<>>

\* the EmailMessage record, from the outcome parsed of parseHeaders
emailMessage(msg, parsed) ==
    IF parsed.threw THEN parsed
    ELSE IF ~Truthy(msg.payload) THEN Threw(TypeErrorBody)
    ELSE Returned([id       |-> msg.id,
                   threadId |-> msg.threadId,
                   subject  |-> parsed.v.subject,
                   from     |-> parsed.v.from,
                   to       |-> parsed.v.to,
                   date     |-> parsed.v.date,
                   snippet  |-> IF Truthy(msg.snippet) THEN msg.snippet.v ELSE "",
                   body     |-> extractBody(msg.payload),
                   isRead   |-> ~includesUnread(msg.labelIds),
                   labels   |-> IF Truthy(msg.labelIds) THEN msg.labelIds.v ELSE <<>>])

toEmailMessage(msg, t) == emailMessage(msg, parseHeaders(headersOf(msg), t))

(***************************************************************************)
(* Email controller (controllers/email.controller.ts)                      *)
(***************************************************************************)
Respond(status, body) == [kind |-> "respond", status |-> status, body |-> body]
CallService(filters) == [kind |-> "call", filters |-> filters]

TimeRanges == {"hours", "days", "weeks", "months"}

\* getEmails up to the service call: the user check, the four query
\* parameters in order, then the two cross-field checks
\* the filter fields as the controller sets them while it reads the query
isReadFilter(q) ==
    IF q.isRead # Undefined THEN Bool(q.isRead = Str("true")) ELSE Undefined
timeRangeFilter(q) == IF Truthy(q.timeRange) THEN q.timeRange ELSE Undefined
timeValueFilter(q) ==
    IF Truthy(q.timeValue) THEN parseInt(q.timeValue.v) ELSE Undefined
maxResultsFilter(q) ==
    IF Truthy(q.maxResults) THEN parseInt(q.maxResults.v) ELSE Undefined

\* the checks of getEmails without the upper limit of maxResults
checkFiltersUnbounded(user, q, isRead, timeRange, timeValue, maxResults) ==
    IF ~Truthy(user)
    THEN Respond(401, [error |-> "User not authenticated"])
    ELSE IF Truthy(q.timeRange) /\ q.timeRange.v \notin TimeRanges
    THEN Respond(400, [error |-> "Invalid timeRange. Must be one of: hours, days, weeks, months"])
    ELSE IF Truthy(q.timeValue) /\ (timeValue = NaN \/ timeValue.v <= 0)
    THEN Respond(400, [error |-> "timeValue must be a positive number"])
    ELSE IF Truthy(q.maxResults) /\ (maxResults = NaN \/ maxResults.v <= 0)
    THEN Respond(400, [error |-> "maxResults must be between 1 and 500"])
    ELSE IF Truthy(timeRange) /\ ~Truthy(timeValue)
    THEN Respond(400, [error |-> "timeValue is required when timeRange is specified"])
    ELSE IF Truthy(timeValue) /\ ~Truthy(timeRange)
    THEN Respond(400, [error |-> "timeRange is required when timeValue is specified"])
    ELSE CallService([isRead |-> isRead, timeRange |-> timeRange,
                      timeValue |-> timeValue, maxResults |-> maxResults])

\* the checks of getEmails without the two cross-field checks
checkFiltersUnpaired(user, q, isRead, timeRange, timeValue, maxResults) ==
    IF ~Truthy(user)
    THEN Respond(401, [error |-> "User not authenticated"])
    ELSE IF Truthy(q.timeRange) /\ q.timeRange.v \notin TimeRanges
    THEN Respond(400, [error |-> "Invalid timeRange. Must be one of: hours, days, weeks, months"])
    ELSE IF Truthy(q.timeValue) /\ (timeValue = NaN \/ timeValue.v <= 0)
    THEN Respond(400, [error |-> "timeValue must be a positive number"])
    ELSE IF Truthy(q.maxResults)
            /\ (maxResults = NaN \/ maxResults.v <= 0 \/ maxResults.v > 500)
    THEN Respond(400, [error |-> "maxResults must be between 1 and 500"])
    ELSE CallService([isRead |-> isRead, timeRange |-> timeRange,
                      timeValue |-> timeValue, maxResults |-> maxResults])

\* the checks of getEmails without the test for the user
checkFiltersAnyUser(user, q, isRead, timeRange, timeValue, maxResults) ==
    IF Truthy(q.timeRange) /\ q.timeRange.v \notin TimeRanges
    THEN Respond(400, [error |-> "Invalid timeRange. Must be one of: hours, days, weeks, months"])
    ELSE IF Truthy(q.timeValue) /\ (timeValue = NaN \/ timeValue.v <= 0)
    THEN Respond(400, [error |-> "timeValue must be a positive number"])
    ELSE IF Truthy(q.maxResults)
            /\ (maxResults = NaN \/ maxResults.v <= 0 \/ maxResults.v > 500)
    THEN Respond(400, [error |-> "maxResults must be between 1 and 500"])
    ELSE IF Truthy(timeRange) /\ ~Truthy(timeValue)
    THEN Respond(400, [error |-> "timeValue is required when timeRange is specified"])
    ELSE IF Truthy(timeValue) /\ ~Truthy(timeRange)
    THEN Respond(400, [error |-> "timeRange is required when timeValue is specified"])
    ELSE CallService([isRead |-> isRead, timeRange |-> timeRange,
                      timeValue |-> timeValue, maxResults |-> maxResults])

\* the checks of getEmails in the order of the code, on the query q and the
\* filter fields computed from it
checkFilters(user, q, isRead, timeRange, timeValue, maxResults) ==
    IF ~Truthy(user)
    THEN Respond(401, [error |-> "User not authenticated"])
    ELSE IF Truthy(q.timeRange) /\ q.timeRange.v \notin TimeRanges
    THEN Respond(400, [error |-> "Invalid timeRange. Must be one of: hours, days, weeks, months"])
    ELSE IF Truthy(q.timeValue) /\ (timeValue = NaN \/ timeValue.v <= 0)
    THEN Respond(400, [error |-> "timeValue must be a positive number"])
    ELSE IF Truthy(q.maxResults)
            /\ (maxResults = NaN \/ maxResults.v <= 0 \/ maxResults.v > 500)
    THEN Respond(400, [error |-> "maxResults must be between 1 and 500"])
    ELSE IF Truthy(timeRange) /\ ~Truthy(timeValue)
    THEN Respond(400, [error |-> "timeValue is required when timeRange is specified"])
    ELSE IF Truthy(timeValue) /\ ~Truthy(timeRange)
    THEN Respond(400, [error |-> "timeRange is required when timeValue is specified"])
    ELSE CallService([isRead |-> isRead, timeRange |-> timeRange,
                      timeValue |-> timeValue, maxResults |-> maxResults])

getEmailsFilters(r) ==
    checkFilters(r.user, r.query, isReadFilter(r.query), timeRangeFilter(r.query),
                 timeValueFilter(r.query), maxResultsFilter(r.query))

AuthExpired ==
    [error |-> "Google authentication expired. Please re-authenticate.",
     code  |-> "AUTH_EXPIRED"]

\* error.message.includes('invalid_grant') || error.message.includes('Token')
isTokenError(message) == Includes(message, "invalid_grant") \/ Includes(message, "Token")

\* error.message.includes('Not Found') || error.message.includes('404')
isNotFoundError(message) == Includes(message, "Not Found") \/ Includes(message, "404")

\* a catch block that answers a failure with 200 and an empty list
getEmailsCatchEmptyList(message) ==
    Respond(200, [success |-> TRUE, count |-> 0, filters |-> Undefined,
                  emails |-> <<>>])

\* the catch block of the getEmails controller
getEmailsCatch(message) ==
    IF isTokenError(message) THEN Respond(401, AuthExpired)
    ELSE Respond(500, [error |-> "Failed to fetch emails", message |-> message])

\* a catch block that tests for not-found before the token signal
getEmailByIdCatchNotFoundFirst(message) ==
    IF isNotFoundError(message)
    THEN Respond(404, [error |-> "Email not found", message |-> message])
    ELSE IF isTokenError(message) THEN Respond(401, AuthExpired)
    ELSE Respond(500, [error |-> "Failed to fetch email", message |-> message])

\* the catch block of the getEmailById controller
getEmailByIdCatch(message) ==
    IF isTokenError(message) THEN Respond(401, AuthExpired)
    ELSE IF isNotFoundError(message)
    THEN Respond(404, [error |-> "Email not found", message |-> message])
    ELSE Respond(500, [error |-> "Failed to fetch email", message |-> message])

\* res.json of the getEmails controller
getEmailsOk(filters, emails) ==
    Respond(200, [success |-> TRUE, count |-> Len(emails),
                  filters |-> filters, emails |-> emails])

\* res.json of the getEmailById controller
getEmailByIdOk(email) == Respond(200, [success |-> TRUE, email |-> email])

(***************************************************************************)
(* Gmail service (services/gmail.service.ts)                               *)
(***************************************************************************)
\* a catch block that throws a new Error without the cause's message
wrapWithoutMessage(message) == "Failed to fetch emails"

\* the catch blocks of the service: a new Error wrapping the message
wrapGetEmailsError(message) == "Failed to fetch emails: " \o message
\* a catch block of getEmailById that throws without the cause's message
wrapByIdWithoutMessage(message) == "Failed to fetch email"
wrapGetEmailByIdError(message) == "Failed to fetch email: " \o message

\* String(n) of a natural number
RECURSIVE String(_)
String(n) ==
    IF n < 10 THEN SubSeq(Digits, n + 1, n + 1)
    ELSE String(n \div 10) \o SubSeq(Digits, (n % 10) + 1, (n % 10) + 1)

\* s.padStart(2, '0')
padStart(s) == IF Len(s) < 2 THEN "0" \o s ELSE s

\* the calendar day of the day number days (days since 1970-01-01); the
\* server's local time zone is taken to be UTC
civilFromMp(y, doy, mp) ==
    [year  |-> IF mp < 10 THEN y ELSE y + 1,
     month |-> IF mp < 10 THEN mp + 3 ELSE mp - 9,
     day   |-> doy - (153 * mp + 2) \div 5 + 1]
civilFromDoy(y, doy) == civilFromMp(y, doy, (5 * doy + 2) \div 153)
civilFromYoe(era, doe, yoe) ==
    civilFromDoy(yoe + era * 400, doe - (365 * yoe + yoe \div 4 - yoe \div 100))
civilFromDoe(era, doe) ==
    civilFromYoe(era, doe,
        (doe - doe \div 1460 + doe \div 36524 - doe \div 146096) \div 365)
civilFromDays(days) ==
    civilFromDoe((days + 719468) \div 146097, (days + 719468) % 146097)

getFullYear(date) == civilFromDays(date.days).year
\* getMonth counts the months from 0
getMonth(date) == civilFromDays(date.days).month - 1
getDate(date) == civilFromDays(date.days).day

\* new Date(date.getTime() - (days * MsPerDay + ms)), for 0 <= ms < MsPerDay
minusTime(date, days, ms) ==
    IF date.ms >= ms
    THEN DateOf(date.days - days, date.ms - ms)
    ELSE DateOf(date.days - days - 1, date.ms - ms + MsPerDay)

\* the switch of buildQuery: the time timeValue units of timeRange before
\* nowDate, one day before it for any other unit
afterDate(timeRange, timeValue, nowDate) ==
    IF timeRange = "hours"
    THEN minusTime(nowDate, timeValue \div 24, (timeValue % 24) * 60 * 60 * 1000)
    ELSE IF timeRange = "days" THEN minusTime(nowDate, timeValue, 0)
    ELSE IF timeRange = "weeks" THEN minusTime(nowDate, timeValue * 7, 0)
    ELSE IF timeRange = "months" THEN minusTime(nowDate, timeValue * 30, 0)
    ELSE minusTime(nowDate, 1, 0)

afterClause(date) ==
    "after:" \o String(getFullYear(date)) \o "/"
        \o padStart(String(getMonth(date) + 1)) \o "/"
        \o padStart(String(getDate(date)))

\* the clauses buildQuery pushes, in order
readParts(filters) ==
    IF filters.isRead # Undefined
    THEN <<IF Truthy(filters.isRead) THEN "is:read" ELSE "is:unread">>
    ELSE <<>>
timeParts(filters, t) ==
    IF Truthy(filters.timeRange) /\ Truthy(filters.timeValue)
    THEN <<afterClause(afterDate(filters.timeRange.v, filters.timeValue.v,
                                 currentDate(t)))>>
    ELSE <<>>

\* parts.join(sep)
RECURSIVE join(_, _)
join(parts, sep) ==
    IF parts = <<>> THEN ""
    ELSE IF Len(parts) = 1 THEN parts[1]
    ELSE parts[1] \o sep \o join(Tail(parts), sep)

\* a query builder that puts the clauses together without a separator
buildQueryUnspaced(filters, t) == join(readParts(filters) \o timeParts(filters, t), "")

\* buildQuery at clock time t
buildQuery(filters, t) == join(readParts(filters) \o timeParts(filters, t), " ")

\* query || undefined
queryOrUndefined(query) == IF query = "" THEN Undefined ELSE Str(query)

\* filters.maxResults || 50
maxResultsOrDefault(filters) ==
    IF Truthy(filters.maxResults) THEN filters.maxResults.v ELSE 50

\* the arguments of gmail.users.messages.list in getEmails at clock time t
listCall(filters, t) ==
    [op |-> "list", q |-> queryOrUndefined(buildQuery(filters, t)),
     maxResults |-> maxResultsOrDefault(filters)]

\* a list that takes a missing messages field for one message without id
listedMessagesOrOne(data) ==
    IF Truthy(data.messages) THEN data.messages.v ELSE <<[id |-> "undefined"]>>

\* listResponse.data.messages || []
listedMessages(data) == IF Truthy(data.messages) THEN data.messages.v ELSE <<>>

\* the fulfilled values in the order they were fulfilled in
allInCompletionOrder(results, order) == [k \in 1..Len(order) |-> results[order[k]]]

\* await Promise.all(emailPromises): the fulfilled values by position in
\* the array of promises, whatever the order they were fulfilled in
promiseAll(results, order) == [k \in 1..Len(order) |-> results[k]]

(***************************************************************************)
(* Inputs                                                                  *)
(***************************************************************************)
MaxMessages == 2

SeqsUpTo(S, n) == UNION {[1..k -> S] : k \in 0..n}
NoRepeat(q) == \A i, j \in 1..Len(q) : i # j => q[i] # q[j]

User(id, roles, access, refresh) ==
    [t |-> "user", id |-> id, email |-> id \o "@example.com", roles |-> roles,
     googleAccessToken |-> access, googleRefreshToken |-> refresh]

AccessTokens  == {Undefined, Null, Str(""), Str("ya29.access-Token")}
RefreshTokens == {Undefined, Str("1//refresh")}
RoleLists     == {<<>>, <<"USER">>, <<"ADMIN">>, <<"USER", "ADMIN">>}

ConnectedUser == User("u1", <<"USER">>, Str("ya29.access-Token"), Str("1//refresh"))

Query(isRead, timeRange, timeValue, maxResults) ==
    [isRead |-> isRead, timeRange |-> timeRange,
     timeValue |-> timeValue, maxResults |-> maxResults]
NoQuery == Query(Undefined, Undefined, Undefined, Undefined)

Request(route, authenticated, user, query, id) ==
    [route |-> route, authenticated |-> authenticated, user |-> user,
     query |-> query, params |-> [id |-> id, userId |-> Undefined],
     ip |-> "10.0.0.1"]

\* messages of the remote mailbox
MsgIds == {"m1", "m2", "m3"}
Header(name, value) == [name |-> name, value |-> value]
PlainPayload ==
    [t |-> "object", mimeType |-> "text/plain", data |-> Str("cGxhaW4x"),
     parts |-> Undefined,
     headers |-> Arr(<<Header(Str("Subject"), Str("Hello")),
                       Header(Str("From"), Str("a@example.com")),
                       Header(Str("To"), Str("b@example.com, c@example.com")),
                       Header(Str("Date"), Str("2024-01-15"))>>)]
NamelessHeaderPayload ==
    [PlainPayload EXCEPT !.headers = Arr(<<Header(Undefined, Str("x"))>>)]

MessageKinds == {"read", "unread", "nolabels", "nopayload", "noname"}
Message(id, kind) ==
    [id       |-> id,
     threadId |-> "t-" \o id,
     snippet  |-> IF kind = "nolabels" THEN Undefined ELSE Str("Hello there"),
     labelIds |-> CASE kind = "unread"   -> Arr(<<"UNREAD", "INBOX">>)
                    [] kind = "nolabels" -> Undefined
                    [] OTHER             -> Arr(<<"INBOX">>),
     payload  |-> CASE kind = "nopayload" -> Undefined
                    [] kind = "noname"    -> NamelessHeaderPayload
                    [] OTHER              -> PlainPayload]

\* messages of remote errors
TokenErrors    == {"invalid_grant", "Token has been expired or revoked."}
NotFoundErrors == {"Not Found", "Requested entity was not found. (404)"}
OtherErrors    == {"Network Error", "invalid token"}
BothErrors     == {"Not Found: invalid_grant"}
RemoteErrors   == TokenErrors \cup NotFoundErrors \cup OtherErrors \cup BothErrors

Failed(message) == [ok |-> FALSE, message |-> message]

\* what list may answer: an error, a response without messages, or the
\* ids of up to MaxMessages different messages
ListOf(ids) ==
    [ok |-> TRUE, data |-> [messages |-> Arr([i \in 1..Len(ids) |-> [id |-> ids[i]]])]]
ListMissing == [ok |-> TRUE, data |-> [messages |-> Undefined]]
Lists == {ListOf(ids) : ids \in {q \in SeqsUpTo(MsgIds, MaxMessages) : NoRepeat(q)}}

\* what get may answer for a message id: an error or the message
GotMessage(id, kind) == [ok |-> TRUE, data |-> Message(id, kind)]
GetOutcomes(id, kinds, errors) ==
    {GotMessage(id, k) : k \in kinds} \cup {Failed(m) : m \in errors}

FreshStore == [p \in PolicyNames |-> [k \in {"10.0.0.1"} |-> NoWindow]]
\* the window of a caller that has used up the policy's max
UsedUp(policy, t) == [hits |-> policy.max, resetTime |-> t + 1000]
StartTime == WindowMs

BodyIdle  == payload = Undefined /\ extracted = Undefined
LoginIdle == db = <<>> /\ logins = <<>>

(***************************************************************************)
(* One request through the email routes (app.ts, routes/email.routes.ts):  *)
(* globalRateLimiter, apiRateLimiter, requireUser, requireConnectedGoogle, *)
(* then the controller and the service's remote calls.                     *)
(***************************************************************************)
SvcIdle == [filters |-> Undefined, messages |-> <<>>, pending |-> {},
            results |-> <<>>, order |-> <<>>, failure |-> Undefined,
            listResponse |-> Undefined]

Ran(name) == \E i \in 1..Len(ran) : ran[i].name = name
CalledNext(name) == \E i \in 1..Len(ran) : ran[i].name = name /\ ran[i].next

Answer(r) == [status |-> r.status, body |-> r.body]

\* a middleware ran with the given decision: next() hands over to nextPc,
\* an answer ends the request
Handled(name, decision, nextPc) ==
    /\ ran' = Append(ran, [name |-> name, next |-> decision.next])
    /\ IF decision.next
       THEN pc' = nextPc /\ responses' = responses
       ELSE pc' = "done" /\ responses' = Append(responses, Answer(decision))

\* a rate limiter as middleware: skipped, or counted and decided
RateLimited(policy, nextPc) ==
    IF skip(policy, nodeEnv)
    THEN /\ store' = store
         /\ Handled(policy.name, Continue, nextPc)
    ELSE LET rec == increment(store[policy.name][req.ip], policy, now)
         IN  /\ store' = [store EXCEPT ![policy.name][req.ip] = rec]
             /\ Handled(policy.name, rateLimitDecision(policy, rec, now), nextPc)

RunGlobalRateLimiter ==
    /\ pc = "globalRateLimiter"
    /\ RateLimited(globalRateLimiter, "apiRateLimiter")
    /\ UNCHANGED <<nodeEnv, now, req, svc, remoteCalls, remote, gate,
                   inflight, bodyVars, loginVars>>

RunApiRateLimiter ==
    /\ pc = "apiRateLimiter"
    /\ RateLimited(apiRateLimiter, "requireUser")
    /\ UNCHANGED <<nodeEnv, now, req, svc, remoteCalls, remote, gate,
                   inflight, bodyVars, loginVars>>

RunRequireUser ==
    /\ pc = "requireUser"
    /\ Handled("requireUser", requireUser(req), "requireConnectedGoogle")
    /\ UNCHANGED <<nodeEnv, rateVars, req, svc, remoteCalls, remote, gate,
                   bodyVars, loginVars>>

RunRequireConnectedGoogle ==
    /\ pc = "requireConnectedGoogle"
    /\ Handled("requireConnectedGoogle", requireConnectedGoogle(req), "controller")
    /\ UNCHANGED <<nodeEnv, rateVars, req, svc, remoteCalls, remote, gate,
                   bodyVars, loginVars>>

\* the controller answered: the request is over
\* a handler that sends its answer twice
AnsweredTwice(r) ==
    /\ responses' = responses \o <<Answer(r), Answer(r)>>
    /\ pc' = "done"

Answered(r) ==
    /\ responses' = Append(responses, Answer(r))
    /\ pc' = "done"

\* emailController.getEmails up to the first await of the service: the
\* filters are validated and gmail.users.messages.list is called
RunGetEmails ==
    /\ pc = "controller" /\ req.route = "list"
    /\ ran' = Append(ran, [name |-> "getEmails", next |-> FALSE])
    /\ LET r == getEmailsFilters(req)
       IN  IF r.kind = "respond"
           THEN /\ Answered(r)
                /\ UNCHANGED <<svc, remoteCalls>>
           ELSE /\ svc' = [svc EXCEPT !.filters = r.filters]
                /\ remoteCalls' = Append(remoteCalls, listCall(r.filters, now))
                /\ pc' = "awaitList"
                /\ responses' = responses
    /\ UNCHANGED <<nodeEnv, rateVars, req, remote, gate, bodyVars, loginVars>>

\* the list call returned o: the service fails, returns [] or issues one
\* get per listed message, all before the first of them returns
ListReturns ==
    /\ pc = "awaitList"
    /\ \E o \in remote.list :
        IF ~o.ok
        THEN /\ Answered(getEmailsCatch(wrapGetEmailsError(o.message)))
             /\ svc' = [svc EXCEPT !.failure = Str(o.message), !.listResponse = o]
             /\ UNCHANGED remoteCalls
        ELSE LET messages == listedMessages(o.data)
             IN  IF Len(messages) = 0
                 THEN /\ Answered(getEmailsOk(svc.filters, <<>>))
                      /\ svc' = [svc EXCEPT !.listResponse = o]
                      /\ UNCHANGED remoteCalls
                 ELSE /\ svc' = [svc EXCEPT !.messages = messages,
                                            !.pending = 1..Len(messages),
                                            !.listResponse = o]
                      /\ remoteCalls' = remoteCalls \o
                             [i \in 1..Len(messages) |-> [op |-> "get", id |-> messages[i].id]]
                      /\ pc' = "awaitGets"
                      /\ responses' = responses
    /\ UNCHANGED <<nodeEnv, rateVars, req, ran, remote, gate, bodyVars, loginVars>>

\* the outcome of the code after a get that answered o
fetched(o) == IF o.ok THEN toEmailMessage(o.data, now) ELSE Threw(o.message)

\* the get of the i-th listed message returned.  While Promise.all is
\* unsettled, the first rejection makes the service throw and the last
\* fulfilment makes it return; afterwards the outcome is dropped.
GetReturns(i) ==
    /\ pc \in {"awaitGets", "done"}
    /\ i \in svc.pending
    /\ \E o \in GetOutcomes(svc.messages[i].id, remote.kinds, remote.errors) :
       LET r       == fetched(o)
           results == IF r.threw THEN svc.results ELSE svc.results @@ (i :> r.v)
           order   == IF r.threw THEN svc.order ELSE Append(svc.order, i)
           settled == pc = "done"
       IN  /\ svc' = [svc EXCEPT !.pending = @ \ {i},
                                 !.results = IF settled THEN @ ELSE results,
                                 !.order = IF settled THEN @ ELSE order,
                                 !.failure = IF r.threw /\ ~settled
                                             THEN Str(r.message) ELSE @]
           /\ IF settled THEN UNCHANGED <<pc, responses>>
              ELSE IF r.threw
              THEN Answered(getEmailsCatch(wrapGetEmailsError(r.message)))
              ELSE IF svc.pending = {i}
              THEN Answered(getEmailsOk(svc.filters, promiseAll(results, order)))
              ELSE UNCHANGED <<pc, responses>>
    /\ UNCHANGED <<nodeEnv, rateVars, req, ran, remoteCalls, remote, gate,
                   bodyVars, loginVars>>

\* emailController.getEmailById up to the await of the service's get
RunGetEmailById ==
    /\ pc = "controller" /\ req.route = "byId"
    /\ ran' = Append(ran, [name |-> "getEmailById", next |-> FALSE])
    /\ IF ~Truthy(req.user)
       THEN /\ Answered(Respond(401, [error |-> "User not authenticated"]))
            /\ UNCHANGED remoteCalls
       ELSE IF ~Truthy(req.params.id)
       THEN /\ Answered(Respond(400, [error |-> "Email ID is required"]))
            /\ UNCHANGED remoteCalls
       ELSE /\ remoteCalls' = Append(remoteCalls, [op |-> "get", id |-> req.params.id.v])
            /\ pc' = "awaitGet"
            /\ responses' = responses
    /\ UNCHANGED <<nodeEnv, rateVars, req, svc, remote, gate, bodyVars, loginVars>>

\* the get of getEmailById returned
GetByIdReturns ==
    /\ pc = "awaitGet"
    /\ \E o \in GetOutcomes(req.params.id.v, remote.kinds, remote.errors) :
       LET r == fetched(o)
       IN  IF r.threw
           THEN /\ Answered(getEmailByIdCatch(wrapGetEmailByIdError(r.message)))
                /\ svc' = [svc EXCEPT !.failure = Str(r.message)]
           ELSE /\ Answered(getEmailByIdOk(r.v))
                /\ UNCHANGED svc
    /\ UNCHANGED <<nodeEnv, rateVars, req, ran, remoteCalls, remote, gate,
                   bodyVars, loginVars>>

NextRoute ==
    \/ RunGlobalRateLimiter
    \/ RunApiRateLimiter
    \/ RunRequireUser
    \/ RunRequireConnectedGoogle
    \/ RunGetEmails
    \/ RunGetEmailById
    \/ ListReturns
    \/ \E i \in svc.pending : GetReturns(i)
    \/ GetByIdReturns

Remote(list, kinds, errors) == [list |-> list, kinds |-> kinds, errors |-> errors]

RouteInit(envs, stores, requests, remotes) ==
    /\ nodeEnv \in envs
    /\ now = StartTime
    /\ store \in stores
    /\ inflight = {}
    /\ req \in requests
    /\ pc = "globalRateLimiter"
    /\ ran = <<>>
    /\ responses = <<>>
    /\ svc = SvcIdle
    /\ remoteCalls = <<>>
    /\ remote \in remotes
    /\ gate = Undefined
    /\ BodyIdle
    /\ LoginIdle

Envs == {"production", "development", "test"}

\* the callers' windows: none yet, or one of the two policies used up
RouteStores ==
    {FreshStore,
     [FreshStore EXCEPT !["global"]["10.0.0.1"] = UsedUp(globalRateLimiter, StartTime)],
     [FreshStore EXCEPT !["api"]["10.0.0.1"] = UsedUp(apiRateLimiter, StartTime)]}

RouteUsers ==
    {Undefined} \cup
    {User("u1", roles, access, refresh) :
        roles \in {<<"USER">>, <<"ADMIN">>}, access \in AccessTokens,
        refresh \in RefreshTokens}

RouteRequests ==
    {Request("list", a, u, q, Undefined) :
        a \in BOOLEAN, u \in RouteUsers,
        q \in {NoQuery, Query(Str("false"), Undefined, Undefined, Undefined)}}
    \cup
    {Request("byId", a, u, NoQuery, Str("m1")) : a \in BOOLEAN, u \in RouteUsers}

\* every identity and every limiter state, against a small mailbox
InitRoute ==
    RouteInit(Envs, RouteStores, RouteRequests,
              {Remote({Failed("invalid_grant"), ListOf(<<"m1">>)},
                      {"read"}, {"Not Found"})})

SpecRoute == InitRoute /\ [][NextRoute]_vars

\* no Identity attached: the session is not authenticated or carries no user
NoIdentity(r) == ~r.authenticated \/ r.user = Undefined

ControllerOf(r) == IF r.route = "list" THEN "getEmails" ELSE "getEmailById"
Controllers == {"getEmails", "getEmailById"}

\* the request was answered once, with this status
AnsweredWith(status) == Len(responses) = 1 /\ responses[1].status = status

\* a connected user in production against every mailbox: any list answer,
\* any message shape and any remote error, in any order of completion
InitFetch ==
    RouteInit({"production"}, {FreshStore},
              {Request("list", TRUE, ConnectedUser, NoQuery, Undefined),
               Request("byId", TRUE, ConnectedUser, NoQuery, Str("m1"))},
              {Remote(Lists \cup {ListMissing} \cup {Failed(e) : e \in RemoteErrors},
                      MessageKinds, RemoteErrors)})

SpecFetch == InitFetch /\ [][NextRoute]_vars

\* the same with every step that can be taken eventually taken: the event
\* loop runs each callback that is ready and the remote answers each call
SpecFetchLive == SpecFetch /\ WF_vars(NextRoute)

\* query strings of the list endpoint: absent, empty, valid and invalid
IsReadInputs     == {Undefined, Str("true"), Str("false"), Str("yes"), Str("TRUE"), Str("")}
TimeRangeInputs  == {Undefined, Str(""), Str("hours"), Str("days"), Str("weeks"),
                      Str("months"), Str("years")}
TimeValueInputs  == {Undefined, Str(""), Str("7"), Str("0"), Str("-1"), Str("abc"), Str("5abc")}
MaxResultsInputs ==
    {Undefined, Str(""), Str("1"), Str("10"), Str("500"), Str("501"), Str("1000"),
     Str("0"), Str("abc"), Str("5abc")}

\* a connected user in production with every combination of query strings
InitFilter ==
    RouteInit({"production"}, {FreshStore},
              {Request("list", TRUE, ConnectedUser, Query(i, r, v, m), Undefined) :
                  i \in IsReadInputs, r \in TimeRangeInputs,
                  v \in TimeValueInputs, m \in MaxResultsInputs}
              \cup {Request("byId", TRUE, ConnectedUser, NoQuery, Str("m1"))},
              {Remote({ListOf(<<"m1">>)}, {"read"}, {})})

SpecFilter == InitFilter /\ [][NextRoute]_vars

(***************************************************************************)
(* Properties of the filter validation                                     *)
(***************************************************************************)
\* the query parameter is present / is present and not the empty string
Present(x) == x # Undefined
Given(x)   == x \notin {Undefined, Str("")}

\* what parseInt(x, 10) makes of the query strings used here (0 stands for
\* NaN as well: neither is a positive number)
IntegerOf(x) ==
    CASE x = Str("7")    -> 7
      [] x = Str("5abc") -> 5
      [] x = Str("10")   -> 10
      [] x = Str("1")    -> 1
      [] x = Str("500")  -> 500
      [] x = Str("1000") -> 1000
      [] x = Str("501")  -> 501
      [] x = Str("-1")   -> -1
      [] OTHER           -> 0

BadTimeRange(q)  == Given(q.timeRange) /\ q.timeRange \notin {Str("hours"), Str("days"), Str("weeks"), Str("months")}
BadTimeValue(q)  == Given(q.timeValue) /\ IntegerOf(q.timeValue) <= 0
BadMaxResults(q) ==
    Given(q.maxResults) /\ (IntegerOf(q.maxResults) <= 0 \/ IntegerOf(q.maxResults) > 500)

\* the list endpoint rejected the request with this message, without
\* calling the service
Rejected(message) ==
    /\ responses = <<[status |-> 400, body |-> [error |-> message]]>>
    /\ remoteCalls = <<>>

\* the list endpoint called the service without a time filter
AcceptedWithoutTime ==
    /\ remoteCalls # <<>>
    /\ svc.filters.timeRange = Undefined
    /\ svc.filters.timeValue = Undefined

\* C7 as stated: for all filter inputs, timeRange present without timeValue
\* is rejected with 'timeValue is required when timeRange is specified',
\* timeValue present without timeRange with 'timeRange is required when
\* timeValue is specified', and both absent is accepted with no time filter.
C7_CrossFieldAlways ==
    Ran("getEmails") =>
        /\ (Present(req.query.timeRange) /\ ~Present(req.query.timeValue))
              => Rejected("timeValue is required when timeRange is specified")
        /\ (Present(req.query.timeValue) /\ ~Present(req.query.timeRange))
              => Rejected("timeRange is required when timeValue is specified")
        /\ (~Present(req.query.timeRange) /\ ~Present(req.query.timeValue))
              => AcceptedWithoutTime

\* C7, amended: a parameter counts as given when it is present and not the
\* empty string.  When exactly one of timeRange and timeValue is given the
\* request is rejected with 400 and the service is not called; the message
\* is that of the first failing check in the order timeRange value,
\* timeValue value, maxResults value, cross-field, so it is the cross-field
\* message when the given value and maxResults are valid.  When neither is
\* given the request is accepted with no time filter unless maxResults is
\* invalid.
C7_CrossField ==
    Ran("getEmails") =>
        /\ (Given(req.query.timeRange) /\ ~Given(req.query.timeValue)) =>
              IF BadTimeRange(req.query)
              THEN Rejected("Invalid timeRange. Must be one of: hours, days, weeks, months")
              ELSE IF BadMaxResults(req.query)
              THEN Rejected("maxResults must be between 1 and 500")
              ELSE Rejected("timeValue is required when timeRange is specified")
        /\ (Given(req.query.timeValue) /\ ~Given(req.query.timeRange)) =>
              IF BadTimeValue(req.query)
              THEN Rejected("timeValue must be a positive number")
              ELSE IF BadMaxResults(req.query)
              THEN Rejected("maxResults must be between 1 and 500")
              ELSE Rejected("timeRange is required when timeValue is specified")
        /\ (~Given(req.query.timeRange) /\ ~Given(req.query.timeValue)) =>
              IF BadMaxResults(req.query)
              THEN Rejected("maxResults must be between 1 and 500")
              ELSE AcceptedWithoutTime

\* timeValue=5abc without timeRange was rejected with the cross-field
\* message
C7_Witness ==
    /\ req.query.timeValue = Str("5abc")
    /\ req.query.timeRange = Undefined
    /\ req.query.maxResults = Str("10")
    /\ Ran("getEmails")
    /\ Rejected("timeRange is required when timeValue is specified")

(***************************************************************************)
(* Properties of the mailbox calls                                         *)
(***************************************************************************)
IdsOf(records) == [k \in 1..Len(records) |-> records[k].id]

\* the list endpoint answered 200 with n emails
ListedOk(n) ==
    /\ req.route = "list"
    /\ AnsweredWith(200)
    /\ Len(responses[1].body.emails) = n

\* C5: the emails getEmails returns are the listed messages in the order
\* of the list response, whatever the order the gets completed in.
C5_ListOrder ==
    (req.route = "list" /\ AnsweredWith(200)) =>
        /\ IdsOf(responses[1].body.emails) = IdsOf(svc.messages)
        /\ responses[1].body.count = Len(svc.messages)

\* C19: when the list response holds no messages (an empty list or no
\* messages field), getEmails returns the empty list without error and
\* issues no get call, and the list endpoint answers 200 with count 0.
C19_EmptyList ==
    (req.route = "list" /\ svc.listResponse \in {ListOf(<<>>), ListMissing}) =>
        /\ pc = "done"
        /\ svc.failure = Undefined
        /\ \A i \in 1..Len(remoteCalls) : remoteCalls[i].op # "get"
        /\ AnsweredWith(200)
        /\ responses[1].body.success
        /\ responses[1].body.count = 0
        /\ responses[1].body.emails = <<>>

\* a list response without a messages field was answered 200 with count 0
C19_Witness ==
    /\ svc.listResponse = ListMissing
    /\ remoteCalls = <<listCall(svc.filters, now)>>
    /\ ListedOk(0)
    /\ responses[1].body.count = 0

\* two listed messages whose gets completed in the reverse order
C5_Witness ==
    /\ ListedOk(2)
    /\ svc.order = <<2, 1>>

\* the message carries the token-invalidity signal
HasTokenSignal(message) ==
    \/ \E i \in 1..(Len(message) - 12) : SubSeq(message, i, i + 12) = "invalid_grant"
    \/ \E i \in 1..(Len(message) - 4) : SubSeq(message, i, i + 4) = "Token"

\* C8: in both endpoints a failure of the mailbox client (the list call, a
\* get or the normalization) whose message contains 'invalid_grant' or
\* 'Token' is answered 401 with the AUTH_EXPIRED body, the service having
\* wrapped the message in 'Failed to fetch ...: <message>' on the way.
C8_AuthExpired ==
    (svc.failure # Undefined /\ HasTokenSignal(svc.failure.v)) =>
        responses = <<[status |-> 401,
                       body |-> [error |-> "Google authentication expired. Please re-authenticate.",
                                 code  |-> "AUTH_EXPIRED"]]>>

\* a get of the list endpoint failed with an expired token and the request
\* was answered 401
C8_Witness ==
    /\ req.route = "list"
    /\ svc.messages # <<>>
    /\ svc.failure = Str("Token has been expired or revoked.")
    /\ AnsweredWith(401)

(***************************************************************************)
(* One request through a stand-alone gate followed by the route's handler  *)
(***************************************************************************)
Gate(name, paramName, roles) == [name |-> name, paramName |-> paramName, roles |-> roles]

\* the decision of the gate g for the request r
gateDecision(g, r) ==
    CASE g.name = "requireUser"            -> requireUser(r)
      [] g.name = "requireConnectedGoogle" -> requireConnectedGoogle(r)
      [] g.name = "requireRole"            -> requireRole(g.roles, r)
      [] g.name = "requireOwnershipOrRole" -> requireOwnershipOrRole(g.paramName, g.roles, r)

RunGate ==
    /\ pc = "gate"
    /\ Handled(gate.name, gateDecision(gate, req), "handler")
    /\ UNCHANGED <<nodeEnv, rateVars, req, svc, remoteCalls, remote, gate,
                   bodyVars, loginVars>>

\* the handler behind the gate
RunHandler ==
    /\ pc = "handler"
    /\ ran' = Append(ran, [name |-> "handler", next |-> FALSE])
    /\ Answered(Respond(200, [success |-> TRUE]))
    /\ UNCHANGED <<nodeEnv, rateVars, req, svc, remoteCalls, remote, gate,
                   bodyVars, loginVars>>

NextGate == RunGate \/ RunHandler

UserIds == {"u1", "u2"}
GateUsers ==
    {Undefined} \cup
    {User(id, roles, access, Undefined) :
        id \in UserIds, roles \in RoleLists, access \in {Undefined, Str("ya29.access-Token")}}
GateParams == {Undefined, Str("")} \cup {Str(id) : id \in UserIds}
GateRequests ==
    {[Request("gate", a, u, NoQuery, Undefined) EXCEPT !.params.userId = p] :
        a \in BOOLEAN, u \in GateUsers, p \in GateParams}
BypassRoles == {<<>>, <<"ADMIN">>, <<"USER", "ADMIN">>}
Gates ==
    {Gate("requireUser", "userId", <<>>), Gate("requireConnectedGoogle", "userId", <<>>)}
    \cup {Gate("requireRole", "userId", roles) : roles \in BypassRoles}
    \cup {Gate("requireOwnershipOrRole", "userId", roles) : roles \in BypassRoles}

InitGate ==
    /\ nodeEnv = "production"
    /\ now = StartTime
    /\ store = FreshStore
    /\ inflight = {}
    /\ req \in GateRequests
    /\ pc = "gate"
    /\ ran = <<>>
    /\ responses = <<>>
    /\ svc = SvcIdle
    /\ remoteCalls = <<>>
    /\ remote = Remote({}, {}, {})
    /\ gate \in Gates
    /\ BodyIdle
    /\ LoginIdle

SpecGate == InitGate /\ [][NextGate]_vars

(***************************************************************************)
(* Requests of one caller key against one rate limiter.  A counted request *)
(* takes two steps: the store's increment, then (after the await) the      *)
(* decision on the totalHits that increment returned; other requests of    *)
(* the same caller may arrive in between.  gate holds the limiter and what *)
(* an observer of the traffic counts: the start of the current window, the *)
(* requests sent in it and those of them that were allowed.  A run starts  *)
(* with no window recorded, or late in a window in which the caller has    *)
(* already sent max - 1 requests, and makes up to MaxRequests requests.    *)
(***************************************************************************)
MaxInflight == 2
MaxWindows  == 2
MaxRequests == 8

RateKey == "10.0.0.1"

\* the observer's window after a request at time t
NewWindow(g, t) == g.sent = 0 \/ t >= g.windowStart + g.policy.windowMs
Observed(g, t) ==
    IF NewWindow(g, t)
    THEN [g EXCEPT !.windowStart = t, !.sent = 1, !.allowed = 0, !.made = @ + 1]
    ELSE [g EXCEPT !.sent = @ + 1, !.made = @ + 1]

\* the decision d for the request r has been taken
Decided(g, r, d) ==
    /\ ran' = <<[name |-> g.policy.name, next |-> d.next,
                 sent |-> r.sent, window |-> r.window]>>
    /\ responses' = IF d.next THEN <<>> ELSE <<Answer(d)>>
    /\ gate' = IF d.next /\ r.window = g.windowStart
               THEN [g EXCEPT !.allowed = @ + 1] ELSE g

\* a request arrives at the limiter: skipped and passed on at once, or
\* counted by the store
Arrive ==
    /\ pc = "rate"
    /\ Cardinality(inflight) < MaxInflight
    /\ gate.made < MaxRequests
    /\ IF skip(gate.policy, nodeEnv)
       THEN /\ Decided(Observed(gate, now),
                       [sent |-> Observed(gate, now).sent, window |-> now], Continue)
            /\ UNCHANGED <<store, inflight>>
       ELSE /\ store' = [store EXCEPT ![gate.policy.name][RateKey] =
                                        increment(@, gate.policy, now)]
            /\ inflight' = inflight \cup
                    {[sent   |-> Observed(gate, now).sent,
                      window |-> Observed(gate, now).windowStart,
                      rec    |-> increment(store[gate.policy.name][RateKey],
                                           gate.policy, now)]}
            /\ gate' = Observed(gate, now)
            /\ UNCHANGED <<ran, responses>>
    /\ UNCHANGED <<nodeEnv, now, req, pc, svc, remoteCalls, remote, bodyVars, loginVars>>

\* a counted request is decided on the totalHits its increment returned
Decide ==
    /\ pc = "rate"
    /\ \E r \in inflight :
        /\ inflight' = inflight \ {r}
        /\ Decided(gate, r, rateLimitDecision(gate.policy, r.rec, now))
    /\ UNCHANGED <<nodeEnv, now, store, req, pc, svc, remoteCalls, remote,
                   bodyVars, loginVars>>

\* time passes: to just before the end of a window, or a whole window
Tick ==
    /\ pc = "rate"
    /\ \E d \in {WindowMs - 1, WindowMs} :
        /\ now + d <= StartTime + MaxWindows * WindowMs
        /\ now' = now + d
    /\ UNCHANGED <<nodeEnv, store, inflight, routeVars, bodyVars, loginVars>>

NextRate == Arrive \/ Decide \/ Tick

InitRate ==
    /\ nodeEnv \in Envs
    /\ now = StartTime
    /\ inflight = {}
    /\ req = Request("rate", FALSE, Undefined, NoQuery, Undefined)
    /\ pc = "rate"
    /\ ran = <<>>
    /\ responses = <<>>
    /\ svc = SvcIdle
    /\ remoteCalls = <<>>
    /\ remote = Remote({}, {}, {})
    /\ \E p \in Policies : \E n \in {0, p.max - 1} :
        /\ gate = [policy |-> p, made |-> 0, sent |-> n, allowed |-> n,
                   windowStart |-> IF n = 0 THEN 0 ELSE StartTime]
        /\ store = IF n = 0 \/ skip(p, nodeEnv) THEN FreshStore
                   ELSE [FreshStore EXCEPT ![p.name][RateKey] =
                            [hits |-> n, resetTime |-> StartTime + p.windowMs]]
    /\ BodyIdle
    /\ LoginIdle

SpecRate == InitRate /\ [][NextRate]_vars

(***************************************************************************)
(* extractBody on a payload tree                                           *)
(***************************************************************************)
MaxParts == 2

PlainData == "cGxhaW4x"
HtmlData  == "PHA+aHRtbDE8L3A+"
PlainLeaf == Leaf("text/plain", Str(PlainData))
HtmlLeaf  == Leaf("text/html", Str(HtmlData))
EmptyLeaf == Leaf("text/plain", Undefined)
Leaves    == {PlainLeaf, HtmlLeaf, EmptyLeaf}

\* a multipart of leaves, and the payloads handed to extractBody: a leaf, or
\* a multipart of leaves and multiparts of leaves
InnerParts == {Multipart(kids) : kids \in SeqsUpTo(Leaves, MaxParts)}
\* wider nodes: up to MaxWidth children, each a leaf or a multipart around
\* one leaf; the html inside such a multipart may differ from HtmlLeaf
MaxWidth == 3
NestedHtmlData == "PHA+aHRtbDI8L3A+"
NestedHtmlLeaf == Leaf("text/html", Str(NestedHtmlData))
SingleParts == {Multipart(<<l>>) : l \in Leaves \cup {NestedHtmlLeaf}}
WideRoots ==
    {Multipart(kids) : kids \in SeqsUpTo(Leaves \cup SingleParts, MaxWidth)}
Roots ==
    Leaves \cup {Multipart(kids) : kids \in SeqsUpTo(Leaves \cup InnerParts, MaxParts)}
        \cup WideRoots

ExtractBody ==
    /\ pc = "body"
    /\ extracted = Undefined
    /\ extracted' = Str(extractBody(payload))
    /\ UNCHANGED <<nodeEnv, rateVars, routeVars, payload, loginVars>>

NextBody == ExtractBody

InitBody ==
    /\ nodeEnv = "production"
    /\ now = StartTime
    /\ store = FreshStore
    /\ inflight = {}
    /\ req = Undefined
    /\ pc = "body"
    /\ ran = <<>>
    /\ responses = <<>>
    /\ svc = SvcIdle
    /\ remoteCalls = <<>>
    /\ remote = Remote({}, {}, {})
    /\ gate = Undefined
    /\ payload \in Roots
    /\ extracted = Undefined
    /\ LoginIdle

SpecBody == InitBody /\ [][NextBody]_vars

(***************************************************************************)
(* Properties of extractBody                                               *)
(***************************************************************************)
RECURSIVE PartsBelow(_)
\* the parts of a payload tree at every depth
PartsBelow(node) ==
    IF node.parts = Undefined THEN {}
    ELSE UNION {{node.parts.v[i]} \cup PartsBelow(node.parts.v[i]) :
                    i \in 1..Len(node.parts.v)}

IsPlainWithData(part) ==
    part.mimeType = "text/plain" /\ part.data \notin {Undefined, Str("")}
IsHtmlWithData(part) ==
    part.mimeType = "text/html" /\ part.data \notin {Undefined, Str("")}

\* C6: for a multipart payload that holds a text/plain part with data at
\* any depth, extractBody returns the text of a text/plain part, never the
\* text of a text/html part, wherever the html part stands.
C6_PlainPreferred ==
    (/\ extracted # Undefined
     /\ payload.data = Undefined
     /\ \E part \in PartsBelow(payload) : IsPlainWithData(part))
    => /\ extracted.v = "plain1"
       /\ extracted.v # "<p>html1</p>"

\* a payload with a text/plain part with data below it went through
\* extractBody and the plain text came back
C6_Witness ==
    /\ extracted = Str("plain1")
    /\ payload = Multipart(<<HtmlLeaf, Multipart(<<PlainLeaf>>)>>)

\* C18 as stated: on a node without inline data whose direct children
\* include a text/html part with data and a text/plain part with data,
\* extractBody returns the text of the text/plain part, whatever the order
\* of the two.
C18_SiblingOrder ==
    (/\ extracted # Undefined
     /\ payload.data = Undefined
     /\ payload.parts # Undefined
     /\ \E i, j \in 1..Len(payload.parts.v) :
            /\ IsHtmlWithData(payload.parts.v[i])
            /\ IsPlainWithData(payload.parts.v[j]))
    => extracted = Str("plain1")

\* a node with a multipart around html, then html, then plain went through
\* extractBody and the html of the nested multipart came back
C18_Witness ==
    /\ payload = Multipart(<<Multipart(<<NestedHtmlLeaf>>), HtmlLeaf, PlainLeaf>>)
    /\ extracted = Str("<p>html2</p>")

\* C26 as stated: for a payload tree without a text/plain part with data
\* that has a direct text/html child with data, extractBody returns the
\* text of that html child, also when a later sibling is a multipart with
\* nothing decodable in it; and it returns the empty string only when no
\* part of the tree has data
C26_HtmlFallbackKept ==
    (extracted # Undefined /\ payload.data = Undefined /\ payload.parts # Undefined) =>
        /\ (/\ \A part \in PartsBelow(payload) : ~IsPlainWithData(part)
            /\ \E i \in 1..Len(payload.parts.v) : IsHtmlWithData(payload.parts.v[i]))
           => extracted = Str("<p>html1</p>")
        /\ extracted = Str("") =>
              \A part \in PartsBelow(payload) :
                  ~IsPlainWithData(part) /\ ~IsHtmlWithData(part)

\* a node with html and then a multipart around a part without data went
\* through extractBody and the empty string came back
C26_Witness ==
    /\ payload = Multipart(<<HtmlLeaf, Multipart(<<EmptyLeaf>>)>>)
    /\ extracted = Str("")

(***************************************************************************)
(* The GoogleStrategy verify callback (config/passport.ts): concurrent     *)
(* logins against the users collection.  Each callback reads the user with *)
(* findOne, sets the tokens on its copy of the document and saves it; save *)
(* on a document that was read from the collection writes the paths whose  *)
(* value was changed on the copy, save on a new document inserts it, and   *)
(* the unique index on email rejects a second insert.                      *)
(***************************************************************************)
MaxLogins == 2

LoginEmail == "u1@example.com"
StoredUser == [email |-> LoginEmail, googleAccessToken |-> Str("a0"),
               googleRefreshToken |-> Str("r0")]
TokenPaths == {"googleAccessToken", "googleRefreshToken"}

\* the tokens Google hands to the callbacks: a fresh access token each, and
\* no refresh token, an empty one, a fresh one or the one already stored
LoginAccessToken(l) == Str(<<"a1", "a2", "a3", "a4">>[l])
LoginRefreshTokens(l) ==
    {Undefined, Str(""), Str("r0"), Str(<<"r1", "r2", "r3", "r4">>[l])}

\* the users collection is the list of its documents
\* the positions of the documents with this email
WithEmail(collection, email) ==
    {i \in 1..Len(collection) : collection[i].email = email}

\* User.findOne({ email }): the first document with this email, or null
findOne(collection, email) ==
    IF WithEmail(collection, email) = {} THEN Null
    ELSE collection[CHOOSE i \in WithEmail(collection, email) :
                        \A j \in WithEmail(collection, email) : i <= j]

\* user.googleAccessToken = accessToken;
\* if (refreshToken) user.googleRefreshToken = refreshToken;
setTokens(user, accessToken, refreshToken) ==
    [user EXCEPT !.googleAccessToken = accessToken,
                 !.googleRefreshToken = IF Truthy(refreshToken) THEN refreshToken ELSE @]

\* new User({ email, googleAccessToken, googleRefreshToken })
newUser(email, accessToken, refreshToken) ==
    [email |-> email, googleAccessToken |-> accessToken,
     googleRefreshToken |-> refreshToken]

\* the paths of the copy whose value differs from what was read
modifiedPaths(read, user) == {path \in TokenPaths : read[path] # user[path]}

\* save() of a document read from the collection: $set of modified paths
saveModified(collection, read, user) ==
    [i \in 1..Len(collection) |->
        IF collection[i].email = user.email
        THEN [path \in DOMAIN collection[i] |->
                 IF path \in modifiedPaths(read, user)
                 THEN user[path] ELSE collection[i][path]]
        ELSE collection[i]]

\* a schema without a unique path
noUniquePaths == {}

\* the paths the user schema declares unique
uniquePaths == {"email"}

\* save() of a new document: the insert fails with a duplicate key error
\* when a document of the collection has the same value at a unique path
insertOne(collection, doc) ==
    IF \E i \in 1..Len(collection), path \in uniquePaths :
           collection[i][path] = doc[path]
    THEN Threw("E11000 duplicate key error")
    ELSE Returned(Append(collection, doc))

\* the callback l has not started
NotStarted(l, email, refreshToken) ==
    [pc |-> "findOne", email |-> email, accessToken |-> LoginAccessToken(l),
     refreshToken |-> refreshToken, read |-> Null, user |-> Null, error |-> Null]

\* the callback up to the await of findOne
FindUser(l) ==
    /\ logins[l].pc = "findOne"
    /\ IF ~Truthy(logins[l].email)
       THEN logins' = [logins EXCEPT ![l].pc = "done",
                          ![l].error = Str("No email found in Google profile")]
       ELSE logins' = [logins EXCEPT ![l].pc = "found",
                          ![l].read = findOne(db, logins[l].email.v)]
    /\ UNCHANGED <<nodeEnv, rateVars, routeVars, bodyVars, db>>

\* findOne returned a user: the tokens are set and the document is saved
SaveExisting(l) ==
    /\ logins[l].pc = "found"
    /\ logins[l].read # Null
    /\ db' = saveModified(db, logins[l].read,
                          setTokens(logins[l].read, logins[l].accessToken,
                                    logins[l].refreshToken))
    /\ logins' = [logins EXCEPT ![l].pc = "done",
                      ![l].user = setTokens(logins[l].read, logins[l].accessToken,
                                            logins[l].refreshToken)]
    /\ UNCHANGED <<nodeEnv, rateVars, routeVars, bodyVars>>

\* findOne returned null: a new user is saved, unless the email has been
\* inserted in the meantime
SaveNew(l) ==
    /\ logins[l].pc = "found"
    /\ logins[l].read = Null
    /\ IF insertOne(db, newUser(logins[l].email.v, logins[l].accessToken,
                                logins[l].refreshToken)).threw
       THEN /\ db' = db
            /\ logins' = [logins EXCEPT ![l].pc = "done",
                              ![l].error = Str("E11000 duplicate key error")]
       ELSE /\ db' = insertOne(db, newUser(logins[l].email.v, logins[l].accessToken,
                                           logins[l].refreshToken)).v
            /\ logins' = [logins EXCEPT ![l].pc = "done",
                              ![l].user = newUser(logins[l].email.v,
                                                  logins[l].accessToken,
                                                  logins[l].refreshToken)]
    /\ UNCHANGED <<nodeEnv, rateVars, routeVars, bodyVars>>

NextLogin ==
    \E l \in DOMAIN logins : FindUser(l) \/ SaveExisting(l) \/ SaveNew(l)

InitLogin ==
    /\ nodeEnv = "production"
    /\ now = StartTime
    /\ store = FreshStore
    /\ inflight = {}
    /\ req = Undefined
    /\ pc = "login"
    /\ ran = <<>>
    /\ responses = <<>>
    /\ svc = SvcIdle
    /\ remoteCalls = <<>>
    /\ remote = Remote({}, {}, {})
    /\ gate = Undefined
    /\ BodyIdle
    /\ db \in {<<>>, <<StoredUser>>}
    /\ \E n \in 1..MaxLogins :
          logins \in {f \in [1..n -> UNION {{NotStarted(l, e, r) :
                                        e \in {Undefined, Str(LoginEmail)},
                                        r \in LoginRefreshTokens(l)} : l \in 1..n}] :
                          \A l \in 1..n : f[l].accessToken = LoginAccessToken(l)}

SpecLogin == InitLogin /\ [][NextLogin]_vars

(***************************************************************************)
(* Properties of the logins                                                *)
(***************************************************************************)
\* the logins that saved the existing user
SavedExisting == {l \in DOMAIN logins : logins[l].pc = "done" /\ logins[l].read \notin {Null}
                                         /\ logins[l].user # Null}

TokenPair(user) == <<user.googleAccessToken, user.googleRefreshToken>>

\* C10: after concurrent logins of one existing user the stored credential
\* pair is the pair one of those logins had on the document it saved, not
\* a combination of tokens of different logins.
C10_LastWriteWins ==
    (/\ \A l \in DOMAIN logins : logins[l].pc = "done"
     /\ SavedExisting # {})
    => \E l \in SavedExisting : TokenPair(findOne(db, LoginEmail)) = TokenPair(logins[l].user)

\* two logins read the stored user before either saved, and both have
\* saved
C10_Witness ==
    /\ Cardinality(SavedExisting) = 2
    /\ \A l \in SavedExisting : logins[l].read = StoredUser

\* the logins that found no user / that inserted one
FoundNone == {l \in DOMAIN logins : logins[l].pc = "done" /\ logins[l].read = Null
                                     /\ logins[l].email = Str(LoginEmail)}
Created == {l \in FoundNone : logins[l].user # Null}

\* C28: after any interleaving of logins for one email that each found no
\* user, at most one document with that email is stored; one of the logins
\* created it and every other one ended with an error passed to done and
\* without a user.
C28_UniqueEmail ==
    /\ Cardinality(WithEmail(db, LoginEmail)) <= 1
    /\ Cardinality(Created) <= 1
    /\ \A l \in FoundNone :
           IF l \in Created
           THEN logins[l].error = Null /\ findOne(db, LoginEmail) # Null
           ELSE logins[l].error # Null /\ logins[l].user = Null

\* two logins both found no user; one created it and the other failed
C28_Witness ==
    /\ Cardinality(FoundNone) = 2
    /\ Cardinality(Created) = 1
    /\ Len(db) = 1
    /\ \E l \in FoundNone : logins[l].error = Str("E11000 duplicate key error")

(***************************************************************************)
(* Properties of the rate limiters                                         *)
(***************************************************************************)
\* the environments in which a limiter counts: production for all of them,
\* and development too for the api limiter
Counted(policyName, env) ==
    env = "production" \/ (policyName = "api" /\ env = "development")

\* the last request decided was the n-th of its window
LastDecided(n) == ran # <<>> /\ ran[1].sent = n

\* C4 as stated: for every policy (max N, window W), in whatever
\* environment, a request is allowed if it is among the first N of its
\* window and denied if it is a later one.
C4_WindowAlways ==
    ran # <<>> => (ran[1].next <=> ran[1].sent <= gate.policy.max)

\* C4, amended: where the policy's skip does not apply (NODE_ENV is neither
\* test nor development; for the api limiter: is not test), the first N
\* requests of a window are allowed, every later one of that window is
\* answered 429, and the first request at least W after the window began
\* is counted 1 in a new window and allowed; where the skip applies every
\* request is allowed and none is counted.
C4_WindowCounted ==
    /\ \A r \in inflight :
          /\ r.rec.hits = r.sent
          /\ r.rec.resetTime = r.window + gate.policy.windowMs
    /\ ran # <<>> =>
          IF Counted(gate.policy.name, nodeEnv)
          THEN /\ ran[1].next <=> ran[1].sent <= gate.policy.max
               /\ ~ran[1].next <=> (responses # <<>> /\ responses[1].status = 429)
          ELSE ran[1].next /\ store = FreshStore

\* in production the sixth request of a window of the strict limiter, made
\* from a fresh store, was answered 429
C4_Witness ==
    /\ nodeEnv = "production"
    /\ gate.policy.name = "strict"
    /\ gate.made = 6
    /\ LastDecided(6)
    /\ ~ran[1].next
    /\ responses # <<>> /\ responses[1].status = 429

HoldsRole(userRoles, bypass) ==
    {userRoles[i] : i \in 1..Len(userRoles)} \cap {bypass[j] : j \in 1..Len(bypass)} # {}

\* C2: once requireOwnershipOrRole has run for a request with a user
\* attached and the route parameter present: a user whose id equals the
\* parameter value was allowed whatever its roles; a user with another id
\* and no bypass role was answered 403 'Access denied' without next being
\* called; a user with another id holding a bypass role was allowed.
C2_OwnershipOrRole ==
    (/\ gate.name = "requireOwnershipOrRole"
     /\ Ran("requireOwnershipOrRole")
     /\ req.user # Undefined
     /\ req.params[gate.paramName] \notin {Undefined, Str("")})
    => IF req.params[gate.paramName] = Str(req.user.id)
       THEN CalledNext("requireOwnershipOrRole")
       ELSE IF HoldsRole(req.user.roles, gate.roles)
       THEN CalledNext("requireOwnershipOrRole")
       ELSE /\ ~CalledNext("requireOwnershipOrRole")
            /\ ~Ran("handler")
            /\ responses = <<[status |-> 403,
                              body |-> [success |-> FALSE, message |-> "Access denied"]]>>

\* a user without roles reached the handler behind the ownership gate for
\* its own id
C2_Witness ==
    /\ gate.name = "requireOwnershipOrRole"
    /\ req.user # Undefined
    /\ req.user.roles = <<>>
    /\ req.params[gate.paramName] = Str(req.user.id)
    /\ gate.roles = <<"ADMIN">>
    /\ Ran("handler")

(***************************************************************************)
(* Properties of the email routes                                          *)
(***************************************************************************)
\* C1: on both email routes the gates run in the order requireUser,
\* requireConnectedGoogle, controller, each one only after the one before it
\* called next; a request with no Identity attached that reaches requireUser
\* is answered 401 'Authentication required', and for such a request neither
\* requireConnectedGoogle, the controller nor a remote mailbox call ever runs.
C1_GateOrder ==
    /\ \A i, j \in 1..Len(ran) : i # j => ran[i].name # ran[j].name
    /\ \A i \in 1..Len(ran) :
        /\ ran[i].name = "requireConnectedGoogle"
              => i > 1 /\ ran[i - 1] = [name |-> "requireUser", next |-> TRUE]
        /\ ran[i].name \in Controllers
              => /\ ran[i].name = ControllerOf(req)
                 /\ i > 1
                 /\ ran[i - 1] = [name |-> "requireConnectedGoogle", next |-> TRUE]
        /\ ~ran[i].next => i = Len(ran)
    /\ NoIdentity(req) =>
        /\ ~Ran("requireConnectedGoogle")
        /\ \A c \in Controllers : ~Ran(c)
        /\ remoteCalls = <<>>
        /\ Ran("requireUser") =>
              /\ pc = "done"
              /\ responses = <<[status |-> 401,
                                body |-> [success |-> FALSE,
                                          message |-> "Authentication required"]]>>

\* a request with no Identity was denied by requireUser on the by-id route
C1_Witness ==
    /\ NoIdentity(req) /\ req.route = "byId"
    /\ ran # <<>>
    /\ ran[Len(ran)] = [name |-> "requireUser", next |-> FALSE]
    /\ AnsweredWith(401)

\* a non-empty access credential
NonEmptyToken(token) == token.t = "string" /\ token.v # ""

\* C3: requireConnectedGoogle calls next if and only if the attached user
\* carries a non-empty googleAccessToken; otherwise (undefined, null or ''
\* token, whatever the refresh token and the roles) it answers 403 with code
\* GOOGLE_NOT_CONNECTED and the request ends there, so no remote mailbox
\* call is made for a user without an access token.
C3_ConnectedOnly ==
    /\ \A i \in 1..Len(ran) :
          ran[i].name = "requireConnectedGoogle" =>
            /\ ran[i].next <=> NonEmptyToken(req.user.googleAccessToken)
            /\ ~ran[i].next =>
                  /\ pc = "done"
                  /\ AnsweredWith(403)
                  /\ responses[1].body.code = "GOOGLE_NOT_CONNECTED"
                  /\ \A c \in Controllers : ~Ran(c)
    /\ remoteCalls # <<>> =>
          /\ req.user # Undefined
          /\ NonEmptyToken(req.user.googleAccessToken)

\* an administrator with a refresh token but an empty access token was
\* stopped by requireConnectedGoogle
C3_Witness ==
    /\ req.user # Undefined
    /\ req.user.googleAccessToken = Str("")
    /\ req.user.googleRefreshToken = Str("1//refresh")
    /\ req.user.roles = <<"ADMIN">>
    /\ ran # <<>>
    /\ ran[Len(ran)] = [name |-> "requireConnectedGoogle", next |-> FALSE]
    /\ AnsweredWith(403)

\* the caller's window of a policy in the store
WindowOf(policyName) == store[policyName][req.ip]

\* the request went over the limit of a policy that counts it
OverLimit(policy) ==
    /\ Counted(policy.name, nodeEnv)
    /\ Ran(policy.name)
    /\ WindowOf(policy.name).hits > policy.max

\* the step in which the limiter at position at of the chain handles the
\* request counts it in the caller's window
CountsAt(at, policy) ==
    (pc = at /\ pc' # at /\ Counted(policy.name, nodeEnv)) =>
        WindowOf(policy.name)'.hits =
            IF WindowOf(policy.name).hits = 0 \/ WindowOf(policy.name).resetTime <= now
            THEN 1 ELSE WindowOf(policy.name).hits + 1

\* C11: on the email routes the global and the api limiter stand in front
\* of requireUser; where a limiter counts (its skip does not apply), a
\* request that takes the caller over its limit is answered 429 and neither
\* requireUser, requireConnectedGoogle, the controller nor a remote call
\* runs, whoever the caller is; and each limiter that counts has counted
\* every request it handles, so a request that reaches requireUser has been
\* counted by both.
C11_RateGateFirst ==
    /\ [](\A policy \in {globalRateLimiter, apiRateLimiter} :
            OverLimit(policy) =>
                /\ pc = "done"
                /\ AnsweredWith(429)
                /\ ran[Len(ran)] = [name |-> policy.name, next |-> FALSE]
                /\ ~Ran("requireUser") /\ ~Ran("requireConnectedGoogle")
                /\ \A c \in Controllers : ~Ran(c)
                /\ remoteCalls = <<>>)
    /\ [](Ran("requireUser") =>
            /\ ran[1] = [name |-> "global", next |-> TRUE]
            /\ ran[2] = [name |-> "api", next |-> TRUE]
            /\ ran[3].name = "requireUser")
    /\ [][/\ CountsAt("globalRateLimiter", globalRateLimiter)
          /\ CountsAt("apiRateLimiter", apiRateLimiter)]_vars

\* a connected, authenticated user over the api limit in production was
\* answered 429 before requireUser
C11_Witness ==
    /\ nodeEnv = "production"
    /\ req.authenticated /\ req.user # Undefined
    /\ req.user.googleAccessToken = Str("ya29.access-Token")
    /\ WindowOf("api").hits = 201
    /\ WindowOf("global").hits = 1
    /\ AnsweredWith(429)
    /\ ~Ran("requireUser")

(***************************************************************************)
(* Further properties of the stand-alone gates                             *)
(***************************************************************************)
\* the gate under test has run for the request
GateRan(name) == gate.name = name /\ Ran(name)

\* the gate answered with this status and message and the handler behind
\* it did not run
GateDenied(status, message) ==
    /\ ~CalledNext(gate.name)
    /\ ~Ran("handler")
    /\ pc = "done"
    /\ responses = <<[status |-> status,
                      body |-> [success |-> FALSE, message |-> message]]>>

\* C12: requireRole with a user attached calls next if and only if one of
\* the user's roles is among the required roles; otherwise, an empty roles
\* array included, it answers 403 'Insufficient permissions' and next is
\* not called.
C12_RequireRole ==
    (GateRan("requireRole") /\ req.user # Undefined) =>
        IF HoldsRole(req.user.roles, gate.roles)
        THEN CalledNext("requireRole") /\ responses \in {<<>>, <<[status |-> 200, body |-> [success |-> TRUE]]>>}
        ELSE GateDenied(403, "Insufficient permissions")

\* a user with an empty roles array was refused by requireRole(ADMIN)
C12_Witness ==
    /\ GateRan("requireRole")
    /\ gate.roles = <<"ADMIN">>
    /\ req.user # Undefined
    /\ req.user.roles = <<>>
    /\ GateDenied(403, "Insufficient permissions")

\* C13: requireUser calls next only when the session is authenticated and
\* req.user is present; when either fails it answers 401 'Authentication
\* required' and next is not called.
C13_RequireUser ==
    GateRan("requireUser") =>
        IF req.authenticated /\ req.user # Undefined
        THEN CalledNext("requireUser")
        ELSE GateDenied(401, "Authentication required")

\* a request with a user object but an unauthenticated session was refused
C13_Witness ==
    /\ GateRan("requireUser")
    /\ ~req.authenticated
    /\ req.user # Undefined
    /\ GateDenied(401, "Authentication required")

\* C14: requireOwnershipOrRole answers 401 'Authentication required' when
\* no user is attached, whatever the route parameter; else 400 'Invalid
\* request' when the route parameter is absent, whatever the user's roles;
\* only then does ownership or role decide; next is called in no denial.
C14_CheckOrder ==
    GateRan("requireOwnershipOrRole") =>
        /\ IF req.user = Undefined
           THEN GateDenied(401, "Authentication required")
           ELSE IF req.params[gate.paramName] \in {Undefined, Str("")}
           THEN GateDenied(400, "Invalid request")
           ELSE \/ CalledNext("requireOwnershipOrRole")
                \/ GateDenied(403, "Access denied")
        /\ responses # <<>> /\ responses[1].status # 200
              => ~CalledNext("requireOwnershipOrRole") /\ ~Ran("handler")

\* an administrator was refused with 400 by a gate that lets
\* administrators through, the route parameter being absent
C14_Witness ==
    /\ GateRan("requireOwnershipOrRole")
    /\ gate.roles = <<"ADMIN">>
    /\ req.user # Undefined
    /\ req.user.roles = <<"ADMIN">>
    /\ req.params[gate.paramName] = Undefined
    /\ GateDenied(400, "Invalid request")

(***************************************************************************)
(* Further properties of the filter validation                             *)
(***************************************************************************)
\* the list endpoint called the service
Accepted == remoteCalls # <<>>

\* C15 as stated: whenever maxResults is present, the request is accepted
\* only if it parses as an integer in 1..500, the filters then carrying
\* that integer, and every other present value is rejected with 400
\* 'maxResults must be between 1 and 500'.
C15_MaxResultsAlways ==
    (Ran("getEmails") /\ Present(req.query.maxResults)) =>
        IF IntegerOf(req.query.maxResults) \in 1..500
        THEN Accepted => svc.filters.maxResults = Num(IntegerOf(req.query.maxResults))
        ELSE Rejected("maxResults must be between 1 and 500")

\* C15, amended: whenever maxResults is present and not the empty string,
\* the request is accepted only if parseInt of it (its leading integer, as
\* for '5abc') is in 1..500, the filters and the list call then carrying
\* that integer; every other non-empty value is rejected with 400, with
\* 'maxResults must be between 1 and 500' unless an invalid timeRange or
\* timeValue is reported first.  An empty maxResults is treated as absent.
C15_MaxResults ==
    Ran("getEmails") =>
        /\ Given(req.query.maxResults) =>
              IF BadTimeRange(req.query)
              THEN Rejected("Invalid timeRange. Must be one of: hours, days, weeks, months")
              ELSE IF BadTimeValue(req.query)
              THEN Rejected("timeValue must be a positive number")
              ELSE IF IntegerOf(req.query.maxResults) \notin 1..500
              THEN Rejected("maxResults must be between 1 and 500")
              ELSE Accepted =>
                     /\ svc.filters.maxResults = Num(IntegerOf(req.query.maxResults))
                     /\ remoteCalls[1].op = "list"
                     /\ remoteCalls[1].maxResults = IntegerOf(req.query.maxResults)
        /\ (~Given(req.query.maxResults) /\ Accepted) =>
              /\ svc.filters.maxResults = Undefined
              /\ remoteCalls[1].op = "list"
              /\ remoteCalls[1].maxResults = 50

\* maxResults=1000 alone was rejected
C15_Witness ==
    /\ req.query = Query(Undefined, Undefined, Undefined, Str("1000"))
    /\ Ran("getEmails")
    /\ Rejected("maxResults must be between 1 and 500")

(***************************************************************************)
(* The query synthesizer on its own: gmailService.getEmails is called with *)
(* a filter record at some time of the clock and issues the list call      *)
(***************************************************************************)
FilterRecords ==
    {[isRead |-> i, timeRange |-> r, timeValue |-> v, maxResults |-> m] :
        i \in {Undefined, Bool(TRUE), Bool(FALSE)},
        r \in {Undefined} \cup {Str(u) : u \in TimeRanges},
        v \in {Undefined, Num(1), Num(7), Num(24), Num(30)},
        m \in {Undefined, Num(10)}}

\* a quarter past midnight, midnight, and an hour before midnight some
\* weeks later
Clocks == {StartTime, 0, 20 * MsPerDay + 23 * 60 * 60 * 1000}

\* getEmails of the service from its entry to the first await
CallGetEmails ==
    /\ pc = "service"
    /\ remoteCalls' = Append(remoteCalls, listCall(svc.filters, now))
    /\ pc' = "awaitList"
    /\ UNCHANGED <<nodeEnv, rateVars, req, ran, responses, svc, remote, gate,
                   bodyVars, loginVars>>

NextQuery == CallGetEmails

InitQuery ==
    /\ nodeEnv = "production"
    /\ now \in Clocks
    /\ store = FreshStore
    /\ inflight = {}
    /\ req = Undefined
    /\ pc = "service"
    /\ ran = <<>>
    /\ responses = <<>>
    /\ svc \in {[SvcIdle EXCEPT !.filters = f] : f \in FilterRecords}
    /\ remoteCalls = <<>>
    /\ remote = Remote({}, {}, {})
    /\ gate = Undefined
    /\ BodyIdle
    /\ LoginIdle

SpecQuery == InitQuery /\ [][NextQuery]_vars

\* the q argument of a list call as a string
QueryOf(call) == IF call.q = Undefined THEN "" ELSE call.q.v

\* the read clause a filter record asks for, "" for none
ReadClauseOf(filters) ==
    IF filters.isRead = Bool(TRUE) THEN "is:read"
    ELSE IF filters.isRead = Bool(FALSE) THEN "is:unread"
    ELSE ""

TimeWindowSet(filters) ==
    filters.timeRange # Undefined /\ filters.timeValue # Undefined

\* after:YYYY/MM/DD
IsAfterClause(s) ==
    /\ Len(s) = 16
    /\ SubSeq(s, 1, 6) = "after:"
    /\ AllDigits(SubSeq(s, 7, 10)) /\ CharAt(s, 11) = "/"
    /\ AllDigits(SubSeq(s, 12, 13)) /\ CharAt(s, 14) = "/"
    /\ AllDigits(SubSeq(s, 15, 16))

\* query is the read clause read (if any) and one after clause (if window),
\* in that order with one space between two clauses
ClausesInOrder(read, window, query) ==
    IF ~window THEN query = read
    ELSE IF read = "" THEN IsAfterClause(query)
    ELSE /\ Len(query) = Len(read) + 17
         /\ SubSeq(query, 1, Len(read) + 1) = read \o " "
         /\ IsAfterClause(SubSeq(query, Len(read) + 2, Len(query)))

\* C16 as stated: a present isRead that is neither 'true' nor 'false' is
\* treated as absent, so an accepted request has no isRead in its Filter
\* Record and no is:read / is:unread clause in the query of the list call
C16_UnknownIsReadAbsent ==
    (/\ Ran("getEmails") /\ Accepted
     /\ Present(req.query.isRead)
     /\ req.query.isRead \notin {Str("true"), Str("false")})
    => /\ svc.filters.isRead = Undefined
       /\ \A i \in 1..(Len(QueryOf(remoteCalls[1])) - 2) :
              SubSeq(QueryOf(remoteCalls[1]), i, i + 2) # "is:"

\* isRead=yes alone was accepted as the filter isRead: false and listed
\* with the query is:unread
C16_Witness ==
    /\ req.query = Query(Str("yes"), Undefined, Undefined, Undefined)
    /\ Ran("getEmails") /\ Accepted
    /\ svc.filters.isRead = Bool(FALSE)
    /\ remoteCalls[1].q = Str("is:unread")

\* C17: for every Filter Record the query of the list call is the read
\* clause ('is:read' for isRead true, 'is:unread' for false, none when
\* unset) followed by exactly one after:YYYY/MM/DD clause if and only if
\* both timeRange and timeValue are set, the two joined by exactly one
\* space; when no clause applies the query is empty and the list is called
\* without a query
C17_BuildQuery ==
    (remoteCalls # <<>> /\ remoteCalls[1].op = "list") =>
        /\ remoteCalls[1].q # Str("")
        /\ ClausesInOrder(ReadClauseOf(svc.filters), TimeWindowSet(svc.filters),
                          QueryOf(remoteCalls[1]))
        /\ remoteCalls[1].q = Undefined
              <=> (svc.filters.isRead = Undefined /\ ~TimeWindowSet(svc.filters))

\* unread mail of the last 7 days was asked for on 2024-01-15
C17_Witness ==
    /\ now = StartTime
    /\ svc.filters = [isRead |-> Bool(FALSE), timeRange |-> Str("days"),
                      timeValue |-> Num(7), maxResults |-> Undefined]
    /\ remoteCalls = <<[op |-> "list", q |-> Str("is:unread after:2024/01/08"),
                        maxResults |-> 50]>>

(***************************************************************************)
(* parseHeaders on its own: a list of headers goes through parseHeaders    *)
(***************************************************************************)
MaxHeaders == 2

\* spellings of the To header name, and values with one entry, with spaces
\* around the entries, with an empty entry, and the empty value
ToNames  == {Str("To"), Str("to"), Str("TO")}
ToValues == {Str("a@x"), Str(" a@x , b@y"), Str("a@x,,b@y "), Str("")}
HeaderInputs ==
    {Header(n, v) : n \in ToNames \cup {Str("Subject"), Str("Cc")}, v \in ToValues}
        \cup {Header(Str("Date"), Str("2024-01-15")), Header(Str("Date"), Str("soon"))}

ParseHeaders ==
    /\ pc = "headers"
    /\ extracted = Undefined
    /\ extracted' = parseHeaders(payload.headers.v, now)
    /\ UNCHANGED <<nodeEnv, rateVars, routeVars, payload, loginVars>>

NextHeaders == ParseHeaders

InitHeaders ==
    /\ nodeEnv = "production"
    /\ now = StartTime
    /\ store = FreshStore
    /\ inflight = {}
    /\ req = Undefined
    /\ pc = "headers"
    /\ ran = <<>>
    /\ responses = <<>>
    /\ svc = SvcIdle
    /\ remoteCalls = <<>>
    /\ remote = Remote({}, {}, {})
    /\ gate = Undefined
    /\ payload \in {[PlainPayload EXCEPT !.headers = Arr(hs)] :
                        hs \in SeqsUpTo(HeaderInputs, MaxHeaders)}
    /\ extracted = Undefined
    /\ LoginIdle

SpecHeaders == InitHeaders /\ [][NextHeaders]_vars

\* the positions of the To headers in a list of headers
ToPositions(headers) == {i \in 1..Len(headers) : headers[i].name \in ToNames}
FirstTo(headers) ==
    headers[CHOOSE i \in ToPositions(headers) :
                \A j \in ToPositions(headers) : i <= j]

\* the comma-split, trimmed entries of the values in ToValues
EntriesOf(value) ==
    CASE value = Str("a@x")        -> <<"a@x">>
      [] value = Str(" a@x , b@y") -> <<"a@x", "b@y">>
      [] value = Str("a@x,,b@y ")  -> <<"a@x", "", "b@y">>
      [] value = Str("")           -> <<"">>

\* C20 as stated: parseHeaders returns to as the comma-split, individually
\* trimmed entries of the To header, whose name is matched without regard
\* to case, and as the empty list when there is no To header
C20_ToEntries ==
    (pc = "headers" /\ extracted # Undefined /\ ~extracted.threw) =>
        extracted.v.to =
            IF ToPositions(payload.headers.v) = {} THEN <<>>
            ELSE EntriesOf(FirstTo(payload.headers.v).value)

\* headers without a To header went through parseHeaders and to came back
\* as a list holding one empty string
C20_Witness ==
    /\ pc = "headers"
    /\ payload.headers = Arr(<<Header(Str("Subject"), Str("a@x"))>>)
    /\ extracted # Undefined /\ ~extracted.threw
    /\ extracted.v.to = <<"">>

\* the positions of the Date headers in a list of headers
DatePositions(headers) == {i \in 1..Len(headers) : headers[i].name = Str("Date")}
FirstDate(headers) ==
    headers[CHOOSE i \in DatePositions(headers) :
                \A j \in DatePositions(headers) : i <= j]

\* the instant a Date value stands for: midnight of 2024-01-15 is day 19737
\* since 1970-01-01; the other value used here is no date
IsParsableDate(value) == value = Str("2024-01-15")
InstantOf(value) == DateOf(19737, 0)

\* C21 as stated: parseHeaders returns as date the instant parsed from the
\* Date header, and the current time when the Date header is absent or its
\* value cannot be parsed, so the date is always a valid timestamp
C21_DateOrNow ==
    (pc = "headers" /\ extracted # Undefined /\ ~extracted.threw) =>
        /\ extracted.v.date.valid
        /\ extracted.v.date =
              IF /\ DatePositions(payload.headers.v) # {}
                 /\ IsParsableDate(FirstDate(payload.headers.v).value)
              THEN InstantOf(FirstDate(payload.headers.v).value)
              ELSE currentDate(now)

\* headers whose Date is no date went through parseHeaders and date came
\* back as an Invalid Date
C21_Witness ==
    /\ pc = "headers"
    /\ payload.headers = Arr(<<Header(Str("Date"), Str("soon"))>>)
    /\ extracted # Undefined /\ ~extracted.threw
    /\ extracted.v.date = InvalidDate

(***************************************************************************)
(* Further properties of the failures of the two endpoints                 *)
(***************************************************************************)
\* C22 as stated: GET /emails/:id whose remote lookup throws an error with
\* the message 'Not Found' is answered 404 with the body
\* {error: 'Email not found', message: 'Not Found'}
C22_NotFoundBare ==
    (req.route = "byId" /\ svc.failure = Str("Not Found")) =>
        responses = <<[status |-> 404,
                       body |-> [error |-> "Email not found",
                                 message |-> "Not Found"]]>>

\* C22, amended: GET /emails/:id whose remote lookup throws an error with
\* the message 'Not Found' is answered 404 with the body {error: 'Email not
\* found', message: 'Failed to fetch email: Not Found'}, the message being
\* the one of the error the service throws in its catch block
C22_NotFound ==
    (req.route = "byId" /\ svc.failure = Str("Not Found")) =>
        responses = <<[status |-> 404,
                       body |-> [error |-> "Email not found",
                                 message |-> "Failed to fetch email: Not Found"]]>>

\* the get of GET /emails/:id failed with 'Not Found' and was answered 404
C22_Witness ==
    /\ req.route = "byId"
    /\ remoteCalls = <<[op |-> "get", id |-> "m1"]>>
    /\ svc.failure = Str("Not Found")
    /\ AnsweredWith(404)

\* the text sub occurs in the text s
Occurs(sub, s) ==
    \E i \in 1..(Len(s) - Len(sub) + 1) : SubSeq(s, i, i + Len(sub) - 1) = sub

\* C23 as stated: a 500 answer of the list or get-by-id endpoint carries
\* the message of the underlying error only outside production; in
\* production it carries generic text without the underlying message
C23_GenericInProduction ==
    (AnsweredWith(500) /\ svc.failure # Undefined) =>
        (Occurs(svc.failure.v, responses[1].body.message) <=> nodeEnv # "production")

\* in production a list call that failed with 'Network Error' was answered
\* 500 with that message in the body
C23_Witness ==
    /\ nodeEnv = "production"
    /\ req.route = "list"
    /\ svc.failure = Str("Network Error")
    /\ responses = <<[status |-> 500,
                      body |-> [error |-> "Failed to fetch emails",
                                message |-> "Failed to fetch emails: Network Error"]]>>

(***************************************************************************)
(* What a client is shown of a user: the toJSON transform of the user      *)
(* schema (models/user.model.ts) and the authSuccess and getCurrentUser    *)
(* handlers (controllers/auth.controller.ts)                               *)
(***************************************************************************)
\* a user document; a token that was never set is no field of it
UserDocument(id, email, name, tokens) ==
    [t |-> "user", _id |-> id, __v |-> 0, email |-> email, name |-> name,
     timeZone |-> "America/New_York", roles |-> <<"USER">>] @@ tokens

\* a transform that deletes the access token only
toJSONKeepingRefresh(doc) ==
    [k \in (DOMAIN doc \ {"_id", "__v", "googleAccessToken"}) \cup {"id"} |->
        IF k = "id" THEN doc._id ELSE doc[k]]

\* the toJSON transform: id for _id, and __v and the two tokens deleted
toJSON(doc) ==
    [k \in (DOMAIN doc \ {"_id", "__v", "googleAccessToken", "googleRefreshToken"})
            \cup {"id"} |->
        IF k = "id" THEN doc._id ELSE doc[k]]

Redirect(to) == [status |-> 302, body |-> [location |-> to]]

\* the four fields both handlers copy from the user
userView(user) ==
    [id |-> user._id, email |-> user.email, name |-> user.name,
     timeZone |-> user.timeZone]

authSuccess(r) ==
    IF ~Truthy(r.user) THEN Redirect("/auth/failure")
    ELSE [status |-> 200,
          body |-> [success |-> TRUE, message |-> "Authentication successful",
                    user |-> userView(r.user)]]

getCurrentUser(r) ==
    IF ~Truthy(r.user)
    THEN [status |-> 401, body |-> [success |-> FALSE, message |-> "Not authenticated"]]
    ELSE [status |-> 200, body |-> [success |-> TRUE, user |-> userView(r.user)]]

RunToJSON ==
    /\ pc = "toJSON"
    /\ Truthy(req.user)
    /\ extracted' = toJSON(req.user)
    /\ ran' = Append(ran, [name |-> "toJSON", next |-> FALSE])
    /\ pc' = "done"
    /\ UNCHANGED <<nodeEnv, rateVars, req, responses, svc, remoteCalls, remote,
                   gate, payload, loginVars>>

RunAuthSuccess ==
    /\ pc = "authSuccess"
    /\ responses' = Append(responses, authSuccess(req))
    /\ ran' = Append(ran, [name |-> "authSuccess", next |-> FALSE])
    /\ pc' = "done"
    /\ UNCHANGED <<nodeEnv, rateVars, req, svc, remoteCalls, remote, gate,
                   bodyVars, loginVars>>

RunGetCurrentUser ==
    /\ pc = "getCurrentUser"
    /\ responses' = Append(responses, getCurrentUser(req))
    /\ ran' = Append(ran, [name |-> "getCurrentUser", next |-> FALSE])
    /\ pc' = "done"
    /\ UNCHANGED <<nodeEnv, rateVars, req, svc, remoteCalls, remote, gate,
                   bodyVars, loginVars>>

NextAuth == RunToJSON \/ RunAuthSuccess \/ RunGetCurrentUser

\* the token fields a document may hold: none, one or both
StoredTokens ==
    {<<>>} \cup
    {("googleAccessToken" :> a) : a \in {"a1", "a2"}} \cup
    {("googleRefreshToken" :> r) : r \in {"r1", "r2"}} \cup
    {("googleAccessToken" :> a) @@ ("googleRefreshToken" :> r) :
        a \in {"a1", "a2"}, r \in {"r1", "r2"}}

UserDocuments ==
    {UserDocument(id, e, n, tokens) :
        id \in {"id1", "id2"}, e \in {"u1@example.com", "u2@example.com"},
        n \in {"Ann", "Bob"}, tokens \in StoredTokens}

InitAuth ==
    /\ nodeEnv = "production"
    /\ now = StartTime
    /\ store = FreshStore
    /\ inflight = {}
    /\ req \in {[user |-> u] : u \in UserDocuments \cup {Undefined}}
    /\ pc \in {"toJSON", "authSuccess", "getCurrentUser"}
    /\ ran = <<>>
    /\ responses = <<>>
    /\ svc = SvcIdle
    /\ remoteCalls = <<>>
    /\ remote = Remote({}, {}, {})
    /\ gate = Undefined
    /\ BodyIdle
    /\ LoginIdle

SpecAuth == InitAuth /\ [][NextAuth]_vars

\* the documents that differ from doc in their tokens at most
SameButTokens(doc) ==
    {d \in UserDocuments :
        \A k \in (DOMAIN d \cup DOMAIN doc) \ TokenPaths :
            k \in DOMAIN d /\ k \in DOMAIN doc /\ d[k] = doc[k]}

\* no field of the record is a token field or holds a token of the user
HidesTokens(record, user) ==
    /\ DOMAIN record \cap TokenPaths = {}
    /\ \A k \in DOMAIN record, p \in TokenPaths \cap DOMAIN user :
           record[k] # user[p]

\* C24: the toJSON output and the bodies of the authSuccess and
\* getCurrentUser answers hold neither googleAccessToken nor
\* googleRefreshToken, and a user that differs in the tokens only gets the
\* same output
C24_TokensHidden ==
    /\ Ran("toJSON") =>
          /\ HidesTokens(extracted, req.user)
          /\ \A d \in SameButTokens(req.user) : toJSON(d) = extracted
    /\ (Ran("authSuccess") /\ Truthy(req.user)) =>
          /\ DOMAIN responses[1].body \cap TokenPaths = {}
          /\ HidesTokens(responses[1].body.user, req.user)
          /\ \A d \in SameButTokens(req.user) : authSuccess([user |-> d]) = responses[1]
    /\ (Ran("getCurrentUser") /\ Truthy(req.user)) =>
          /\ DOMAIN responses[1].body \cap TokenPaths = {}
          /\ HidesTokens(responses[1].body.user, req.user)
          /\ \A d \in SameButTokens(req.user) : getCurrentUser([user |-> d]) = responses[1]

\* a user with both tokens went through toJSON
C24_Witness ==
    /\ Ran("toJSON")
    /\ req.user = UserDocument("id1", "u1@example.com", "Ann",
                               ("googleAccessToken" :> "a1") @@ ("googleRefreshToken" :> "r1"))
    /\ extracted = [t |-> "user", id |-> "id1", email |-> "u1@example.com",
                    name |-> "Ann", timeZone |-> "America/New_York",
                    roles |-> <<"USER">>]

(***************************************************************************)
(* Properties of the two controllers as a whole                            *)
(***************************************************************************)
ControllerRan == Ran("getEmails") \/ Ran("getEmailById")

\* C25: every request the list or get-by-id controller handles ends with
\* exactly one answer, of status 200, 400, 401, 404 or 500, whatever the
\* remote does (success, an error of the list or of any get, a message
\* without payload or with a nameless header): it is never answered twice
\* and it is eventually answered
C25_ExactlyOneAnswer ==
    /\ [](/\ Len(responses) <= 1
          /\ \A i \in 1..Len(responses) :
                 responses[i].status \in {200, 400, 401, 404, 500})
    /\ [](ControllerRan => <>(pc = "done" /\ Len(responses) = 1))

\* of two listed messages one had no payload and the other's get failed;
\* both gets have returned and the request was answered 500 once
C25_Witness ==
    /\ req.route = "list"
    /\ Len(svc.messages) = 2
    /\ svc.pending = {}
    /\ svc.failure = Str(TypeErrorBody)
    /\ svc.order = <<>>
    /\ AnsweredWith(500)

\* C27: getEmails is all-or-nothing.  When the list call, the get of a
\* listed message or its normalization fails, the list endpoint answers
\* with an error status (500 with the message 'Failed to fetch emails:
\* <message>', or 401 for a token failure) and never with 200; a 200 answer
\* holds one email for every listed message.
C27_AllOrNothing ==
    req.route = "list" =>
        /\ svc.failure # Undefined =>
              /\ Len(responses) = 1
              /\ responses[1].status \in {401, 500}
              /\ responses[1].status = 500 =>
                    responses[1].body.message
                        = "Failed to fetch emails: " \o svc.failure.v
        /\ AnsweredWith(200) =>
              /\ svc.failure = Undefined
              /\ Len(responses[1].body.emails) = Len(svc.messages)
              /\ responses[1].body.count = Len(svc.messages)

\* of two listed messages the first was fetched and the get of the second
\* failed: the request was answered 500
C27_Witness ==
    /\ req.route = "list"
    /\ Len(svc.messages) = 2
    /\ svc.order = <<1>>
    /\ svc.failure = Str("Network Error")
    /\ responses = <<[status |-> 500,
                      body |-> [error |-> "Failed to fetch emails",
                                message |-> "Failed to fetch emails: Network Error"]]>>

(***************************************************************************)
(* The two controllers called on their own, with or without a user on the  *)
(* request                                                                 *)
(***************************************************************************)
NextController ==
    \/ RunGetEmails
    \/ RunGetEmailById
    \/ ListReturns
    \/ \E i \in svc.pending : GetReturns(i)
    \/ GetByIdReturns

InitController ==
    /\ nodeEnv = "production"
    /\ now = StartTime
    /\ store = FreshStore
    /\ inflight = {}
    /\ req \in {Request("list", u # Undefined, u, Query(i, r, v, m), Undefined) :
                    u \in {Undefined, ConnectedUser},
                    i \in IsReadInputs, r \in TimeRangeInputs,
                    v \in TimeValueInputs, m \in MaxResultsInputs}
               \cup {Request("byId", u # Undefined, u, NoQuery, id) :
                        u \in {Undefined, ConnectedUser},
                        id \in {Undefined, Str("m1")}}
    /\ pc = "controller"
    /\ ran = <<>>
    /\ responses = <<>>
    /\ svc = SvcIdle
    /\ remoteCalls = <<>>
    /\ remote = Remote({ListOf(<<"m1">>)}, {"read"}, {})
    /\ gate = Undefined
    /\ BodyIdle
    /\ LoginIdle

SpecController == InitController /\ [][NextController]_vars

\* the query is one the list endpoint has to reject
InvalidQuery(q) ==
    \/ BadTimeRange(q) \/ BadTimeValue(q) \/ BadMaxResults(q)
    \/ (Given(q.timeRange) /\ ~Given(q.timeValue))
    \/ (Given(q.timeValue) /\ ~Given(q.timeRange))

\* C29: when the list endpoint finds no user on the request (401) or
\* rejects the filter parameters (400), the mailbox client is not invoked:
\* no list or get call is made and nothing but the answer is left behind.
C29_NoRemoteCallOnReject ==
    Ran("getEmails") =>
        /\ (~Truthy(req.user) \/ InvalidQuery(req.query)) =>
              /\ remoteCalls = <<>>
              /\ svc = SvcIdle
              /\ pc = "done"
              /\ Len(responses) = 1
              /\ responses[1].status = IF ~Truthy(req.user) THEN 401 ELSE 400
        /\ (/\ responses # <<>>
            /\ \/ responses[1].status = 400
               \/ responses[1].body = [error |-> "User not authenticated"])
           => (remoteCalls = <<>> /\ svc = SvcIdle)

\* a valid query without a user on the request was answered 401 and no
\* remote call was made
C29_Witness ==
    /\ req.user = Undefined
    /\ req.query = Query(Str("true"), Str("days"), Str("7"), Str("10"))
    /\ Ran("getEmails")
    /\ responses = <<[status |-> 401, body |-> [error |-> "User not authenticated"]]>>
    /\ remoteCalls = <<>>

\* the message carries a not-found signal
HasNotFoundSignal(message) == Occurs("Not Found", message) \/ Occurs("404", message)

\* C30: in the get-by-id endpoint a failure whose message holds a token
\* signal is answered 401 AUTH_EXPIRED, also when it holds a not-found
\* signal as well; a failure with a not-found signal only is answered 404
\* and a failure with neither 500.
C30_AuthBeforeNotFound ==
    (req.route = "byId" /\ svc.failure # Undefined) =>
        /\ Len(responses) = 1
        /\ responses[1].status =
              IF HasTokenSignal(svc.failure.v) THEN 401
              ELSE IF HasNotFoundSignal(svc.failure.v) THEN 404
              ELSE 500
        /\ responses[1].status = 401 => responses[1].body.code = "AUTH_EXPIRED"

\* a get that failed with both signals in its message was answered 401
C30_Witness ==
    /\ req.route = "byId"
    /\ svc.failure = Str("Not Found: invalid_grant")
    /\ AnsweredWith(401)
    /\ responses[1].body.code = "AUTH_EXPIRED"

====
